---- MODULE Spec2Model ----
(***************************************************************************)
(* Model of the change-detection / audit-log / cross-platform sync core of *)
(* the bot: ConsensusSyncService (examples/consensus-sync.js),              *)
(* ConsensusBot.addItem (examples/consensus-integration.js) and            *)
(* StorageWithLog + PublicLog (publicLog.js) over the lowdb Storage.       *)
(***************************************************************************)
EXTENDS Integers, Sequences, FiniteSets, TLC

VARIABLES
  enabledPlatforms,  \* options.enabledPlatforms (an array of platform names)
  adapters,          \* the platform names that have an adapter object
  file,              \* the persisted snapshot (db.json)
  data,              \* storage.db.data, the in-memory snapshot
  syncInProgress,    \* ConsensusSyncService.syncInProgress
  syncInterval,      \* ConsensusSyncService.syncInterval: TRUE while the timer is set
  lastSyncTime,      \* ConsensusSyncService.lastSyncTime (0 = null)
  pc,                \* per call of syncPlatforms: where the call is suspended
  startTime,         \* per call: the pass's startTime
  stats,             \* per call: the pass's stats object
  cur,               \* per call: position of the walk over users/items/platforms
  loaded,            \* per call: the snapshot as loaded by the pass's readDB
  calls,             \* per call: the adapter postMessage calls made by the pass
  outcome,           \* per call: how the last call of syncPlatforms ended
  clock,             \* wall clock, advanced at every pass start
  failBudget,        \* number of external failures still allowed to happen
  dropped,           \* number of syncPlatforms calls that were skipped
  captured,          \* StorageWithLog.previousState is not null
  previousState,     \* StorageWithLog.previousState
  logChannel,        \* PublicLog.logChannel is configured
  sink,              \* the messages appended to the log channel
  wpc,               \* per call of StorageWithLog.writeDB: where it is suspended
  wchanges,          \* per call: the `changes` it detected
  wsnap,             \* per call: the snapshot handed to storage.writeDB()
  wlog,              \* per call: how the public log call settled (until the next handler runs)
  edits,             \* number of client mutations so far
  issued,            \* the transaction ids uuidv7() has issued, in call order
  wtx,               \* per call of writeDB: the transaction of its log call
  diffed,            \* the differ has been applied (pure-function runs)
  conflictResolution, \* options.conflictResolution of the sync service
  platformPriority,  \* options.platformPriority of the sync service
  conflict,          \* the conflict record handed to handleConflict
  candidates,        \* conflict.items as they were when the record was handed in
  winner,            \* what the last handleConflict call returned
  remote,            \* per adapter, the message ids present on its platform
  deleted,           \* the last deleteMessage call: adapter, id, API answer, result
  xpost,             \* the call of crossPostContent: its options, loop position and result
  added,             \* the call of ConsensusBot.addItem: where it is suspended, its item
  dbdata,            \* storage.db.data while a pass still holds the object it loaded
  timers             \* the number of interval timers that are set

storeVars == <<file, data>>

passVars == <<enabledPlatforms, adapters, syncInProgress, syncInterval, lastSyncTime, pc, startTime,
              stats, cur, loaded, calls, outcome, clock, dropped>>

syncVars == <<passVars, failBudget>>

logVars == <<captured, previousState, logChannel, sink, wpc, wchanges, wsnap, wlog,
             edits, diffed, issued, wtx>>

resolverVars == <<conflictResolution, platformPriority, conflict, candidates, winner>>

adapterVars == <<remote, deleted>>

botVars == <<xpost, added, dbdata, timers>>

vars == <<storeVars, syncVars, logVars, resolverVars, adapterVars, botVars>>

-----------------------------------------------------------------------------
(* Bounds *)

MaxFailures == 2
MaxDropped == 1
MaxPasses == MaxFailures + 1

Platforms == {"telegram", "vk", "web"}
Callers == {"start", "timer"}
UserOrder == <<"u1", "u2">>
PostOutcomes == {"ok", "fail", "throw"}

-----------------------------------------------------------------------------
(* Data model *)

NoPlatforms == [p \in {} |-> 0]

\* Descriptions are texts: sequences of characters.
D1 == <<"d", "1">>

D2 == <<"d", "2">>

\* An entity (need or resource). tracked = FALSE models an item without a
\* `platforms` property; originPlatform "none" models an absent property.
Item(g, desc, upd, msg, tracked, origin, plats, status) ==
  [guid |-> g, description |-> desc, createdAt |-> 1, updatedAt |-> upd,
   channelMessageId |-> msg,
   tracked |-> tracked, originPlatform |-> origin, platforms |-> plats,
   syncStatus |-> status]

PlatformEntry(messageId, t) == [channelMessageId |-> messageId, syncedAt |-> t]

\* db.data.consensus: absent, or lastSync (0 = null) and the conflicts queue.
NoConsensus == [exists |-> FALSE, lastSync |-> 0, conflicts |-> <<>>]

EmptyUsers == [u \in {} |-> 0]

DefaultConsensus == [exists |-> TRUE, lastSync |-> 0, conflicts |-> <<>>]

\* The message id a successful post returns (a positive platform id).
NewMessageId == 1

Put(f, k, v) == [x \in DOMAIN f \cup {k} |-> IF x = k THEN v ELSE f[x]]

Snapshot(users, consensus) == [users |-> users, consensus |-> consensus]

\* The entities of a snapshot in the order the pass walks them:
\* for every user, the needs and then the resources.
ItemPositions(d, u) ==
  [i \in 1..Len(d.users[u].needs) |-> <<u, "needs", i>>]
    \o [i \in 1..Len(d.users[u].resources) |-> <<u, "resources", i>>]

RECURSIVE PositionsUpTo(_, _)
PositionsUpTo(d, n) ==
  IF n = 0 THEN <<>>
  ELSE PositionsUpTo(d, n - 1)
         \o (IF UserOrder[n] \in DOMAIN d.users THEN ItemPositions(d, UserOrder[n])
             ELSE <<>>)

Positions(d) == PositionsUpTo(d, Len(UserOrder))

ItemAt(d, pos) == d.users[pos[1]][pos[2]][pos[3]]

SetItem(d, pos, it) == [d EXCEPT !.users[pos[1]][pos[2]][pos[3]] = it]

AllItems(d) == {ItemAt(d, Positions(d)[i]) : i \in 1..Len(Positions(d))}

-----------------------------------------------------------------------------
(* ConsensusSyncService: the pure parts *)

ZeroStats == [processed |-> 0, synced |-> 0, conflicts |-> 0, errors |-> 0]

\* Mutant of SyncAlreadyInProgress: the guard is missing.
SyncNeverInProgress == FALSE

\* syncPlatforms, line 60: the concurrency guard.
SyncAlreadyInProgress == syncInProgress

\* syncPlatforms, lines 75-81: consensus metadata is created when absent.
EnsureConsensus(d) ==
  IF d.consensus.exists THEN d ELSE [d EXCEPT !.consensus = DefaultConsensus]

\* syncItem, lines 147-151: initialise platform tracking.
InitTracking(item) ==
  IF item.tracked THEN item
  ELSE [item EXCEPT !.tracked = TRUE,
                    !.platforms = NoPlatforms,
                    !.originPlatform = IF @ = "none" THEN "telegram" ELSE @,
                    !.syncStatus = "pending"]

\* Mutant of AlreadySynced: an entity whose status is synced is skipped.
AlreadySyncedByStatus(item, p) ==
  \/ item.syncStatus = "synced"
  \/ p \in DOMAIN item.platforms /\ item.platforms[p].channelMessageId # 0

\* syncItem, line 169: item.platforms[platformName]?.channelMessageId
AlreadySynced(item, p) ==
  p \in DOMAIN item.platforms /\ item.platforms[p].channelMessageId # 0

\* Mutant of NeedsPost: the origin platform is not skipped.
NeedsPostAnywhere(item, p) ==
  /\ p \in adapters
  /\ ~AlreadySynced(item, p)

\* syncItem, lines 158-171: the three `continue`s of the platform loop.
NeedsPost(item, p) ==
  /\ p # item.originPlatform
  /\ p \in adapters
  /\ ~AlreadySynced(item, p)

\* Mutant of syncItemToPlatform: a rejected postMessage is not caught.
syncItemToPlatformRethrows(item, p, o, now) ==
  IF o = "ok"
  THEN [item |-> [item EXCEPT !.platforms = Put(@, p, PlatformEntry(NewMessageId, now)),
                              !.syncStatus = "synced"],
        ret |-> "true"]
  ELSE [item |-> item, ret |-> IF o = "throw" THEN "throw" ELSE "false"]

\* syncItemToPlatform: o is what adapter.postMessage did ("ok": resolved
\* with success true, "fail": resolved with success false, "throw": rejected).
\* ret is what the method returns; it has no path that rethrows.
syncItemToPlatform(item, p, o, now) ==
  IF o = "ok"
  THEN [item |-> [item EXCEPT !.platforms = Put(@, p, PlatformEntry(NewMessageId, now)),
                              !.syncStatus = "synced"],
        ret |-> "true"]
  ELSE [item |-> item, ret |-> "false"]

\* syncUserData, lines 123-133: the counters after an item whose syncItem
\* returned normally (processed is counted before syncItem is called).
CountProcessed(st) == [st EXCEPT !.processed = @ + 1]

\* Mutant of CountSynced: every processed entity is counted as synced.
CountSyncedAlways(st, synced) == [st EXCEPT !.synced = @ + 1]

CountSynced(st, synced) == IF synced THEN [st EXCEPT !.synced = @ + 1] ELSE st

\* syncUserData, lines 134-137: syncItem threw.
CountError(st) == [st EXCEPT !.errors = @ + 1]

-----------------------------------------------------------------------------
(* Initial state: the service constructed over an initialised store *)

TrackedItem(g, origin, plats) ==
  Item(g, D1, 1, 100, TRUE, origin, plats, "pending")

LegacyItem(g) == Item(g, D1, 1, 100, FALSE, "none", NoPlatforms, "pending")

User(needs, resources) == [needs |-> needs, resources |-> resources]

OriginEntry == [p \in {"telegram"} |-> PlatformEntry(100, 0)]

SnapshotA ==
  Snapshot([u \in {"u1"} |->
              User(<<TrackedItem("g1", "telegram", OriginEntry)>>,
                   <<LegacyItem("g2")>>)],
           DefaultConsensus)

SnapshotB ==
  Snapshot([u \in {"u1", "u2"} |->
              IF u = "u1" THEN User(<<TrackedItem("g1", "vk", NoPlatforms)>>, <<>>)
              ELSE User(<<>>, <<LegacyItem("g3")>>)],
           NoConsensus)

InitialSnapshots == {SnapshotA, SnapshotB}

EnabledChoices == {<<"telegram", "vk">>, <<"telegram", "vk", "web">>}

AdapterChoices == {{"telegram", "vk"}, {"telegram", "vk", "web"}}

StartCursor == [pos |-> 1, k |-> 0, synced |-> FALSE]

InitSync ==
  /\ enabledPlatforms \in EnabledChoices
  /\ adapters \in AdapterChoices
  /\ file \in InitialSnapshots
  /\ data = file
  /\ syncInProgress = FALSE
  /\ syncInterval = TRUE
  /\ lastSyncTime = 0
  /\ pc = [c \in Callers |-> "idle"]
  /\ startTime = [c \in Callers |-> 0]
  /\ stats = [c \in Callers |-> ZeroStats]
  /\ cur = [c \in Callers |-> StartCursor]
  /\ loaded = [c \in Callers |-> file]
  /\ calls = [c \in Callers |-> <<>>]
  /\ outcome = [c \in Callers |-> "none"]
  /\ clock = 0
  /\ failBudget = MaxFailures
  /\ dropped = 0

-----------------------------------------------------------------------------
(* ConsensusSyncService.syncPlatforms, one action per suspension point *)

Spend(o) == IF o = "ok" THEN failBudget ELSE failBudget - 1

\* A call of syncPlatforms (from start(), the interval timer or triggerSync):
\* skipped when a pass is in progress, otherwise the pass starts and awaits
\* storage.readDB().
syncPlatforms(c) ==
  /\ UNCHANGED logVars
  /\ UNCHANGED resolverVars
  /\ UNCHANGED adapterVars
  /\ UNCHANGED botVars
  /\ UNCHANGED syncInterval
  /\ pc[c] = "idle"
  /\ c = "timer" => timers > 0
  /\ IF SyncAlreadyInProgress
     THEN /\ dropped < MaxDropped
          /\ dropped' = dropped + 1
          /\ UNCHANGED <<enabledPlatforms, adapters, file, data, syncInProgress,
                         lastSyncTime, pc, startTime, stats, cur, loaded, calls,
                         outcome, clock, failBudget>>
     ELSE /\ clock < MaxPasses
          /\ syncInProgress' = TRUE
          /\ clock' = clock + 1
          /\ startTime' = [startTime EXCEPT ![c] = clock + 1]
          /\ calls' = [calls EXCEPT ![c] = <<>>]
          /\ outcome' = [outcome EXCEPT ![c] = "running"]
          /\ pc' = [pc EXCEPT ![c] = "readDB"]
          /\ UNCHANGED <<enabledPlatforms, adapters, file, data, lastSyncTime,
                         stats, cur, loaded, failBudget, dropped>>

\* db.data is the object the pass loaded (no other object has replaced it).
Current == [replaced |-> FALSE, data |-> Snapshot(EmptyUsers, NoConsensus)]

\* A call of addItem holds the user object of an earlier db.read(): once
\* the store is read again, that object is no longer part of db.data.
Superseded(call) ==
  IF call.pc \in {"telegram", "cross", "save"} THEN [call EXCEPT !.stale = TRUE]
  ELSE call

\* Mutant of readDB: without the finally block, a rejected read leaves the
\* flag set.
readDBNoFinally(c) ==
  /\ UNCHANGED logVars
  /\ UNCHANGED resolverVars
  /\ UNCHANGED adapterVars
  /\ UNCHANGED <<xpost, dbdata, timers>>
  /\ UNCHANGED syncInterval
  /\ pc[c] = "readDB"
  /\ \E o \in {"ok", "throw"} :
       /\ o # "ok" => failBudget > 0
       /\ failBudget' = Spend(o)
       /\ IF o = "ok"
          THEN /\ data' = EnsureConsensus(file)
               /\ loaded' = [loaded EXCEPT ![c] = EnsureConsensus(file)]
               /\ stats' = [stats EXCEPT ![c] = ZeroStats]
               /\ cur' = [cur EXCEPT ![c] = StartCursor]
               /\ pc' = [pc EXCEPT ![c] = "walk"]
               /\ added' = Superseded(added)
               /\ UNCHANGED <<syncInProgress, outcome>>
          ELSE /\ outcome' = [outcome EXCEPT ![c] = "readFailed"]
               /\ pc' = [pc EXCEPT ![c] = "idle"]
               /\ UNCHANGED added
               /\ UNCHANGED <<data, loaded, stats, cur, syncInProgress>>
  /\ UNCHANGED <<enabledPlatforms, adapters, file, lastSyncTime, startTime, calls,
                 clock, dropped>>

\* storage.readDB() settles: the snapshot is reloaded from the store, or the
\* read rejects and the catch/finally of syncPlatforms end the pass.
readDB(c) ==
  /\ UNCHANGED logVars
  /\ UNCHANGED resolverVars
  /\ UNCHANGED adapterVars
  /\ UNCHANGED <<xpost, dbdata, timers>>
  /\ UNCHANGED syncInterval
  /\ pc[c] = "readDB"
  /\ \E o \in {"ok", "throw"} :
       /\ o # "ok" => failBudget > 0
       /\ failBudget' = Spend(o)
       /\ IF o = "ok"
          THEN /\ data' = EnsureConsensus(file)
               /\ loaded' = [loaded EXCEPT ![c] = EnsureConsensus(file)]
               /\ stats' = [stats EXCEPT ![c] = ZeroStats]
               /\ cur' = [cur EXCEPT ![c] = StartCursor]
               /\ pc' = [pc EXCEPT ![c] = "walk"]
               /\ added' = Superseded(added)
               /\ UNCHANGED <<syncInProgress, outcome>>
          ELSE /\ syncInProgress' = FALSE
               /\ outcome' = [outcome EXCEPT ![c] = "readFailed"]
               /\ pc' = [pc EXCEPT ![c] = "idle"]
               /\ UNCHANGED added
               /\ UNCHANGED <<data, loaded, stats, cur>>
  /\ UNCHANGED <<enabledPlatforms, adapters, file, lastSyncTime, startTime, calls,
                 clock, dropped>>

Walking(c) == pc[c] = "walk" /\ cur[c].pos <= Len(Positions(data))

CurrentItem(c) == ItemAt(data, Positions(data)[cur[c].pos])

\* syncUserData reaches the next item: processed++ and syncItem starts.
syncItemBegin(c) ==
  /\ UNCHANGED logVars
  /\ UNCHANGED resolverVars
  /\ UNCHANGED adapterVars
  /\ UNCHANGED botVars
  /\ UNCHANGED syncInterval
  /\ Walking(c)
  /\ cur[c].k = 0
  /\ data' = SetItem(data, Positions(data)[cur[c].pos], InitTracking(CurrentItem(c)))
  /\ stats' = [stats EXCEPT ![c] = CountProcessed(@)]
  /\ cur' = [cur EXCEPT ![c].k = 1, ![c].synced = FALSE]
  /\ UNCHANGED <<enabledPlatforms, adapters, file, syncInProgress, lastSyncTime, pc,
                 startTime, loaded, calls, outcome, clock, failBudget, dropped>>

\* One iteration of syncItem's platform loop: a `continue`, or a call of
\* syncItemToPlatform whose adapter.postMessage settles with outcome o.
syncItemPlatform(c) ==
  /\ UNCHANGED logVars
  /\ UNCHANGED resolverVars
  /\ UNCHANGED adapterVars
  /\ UNCHANGED botVars
  /\ UNCHANGED syncInterval
  /\ Walking(c)
  /\ cur[c].k \in 1..Len(enabledPlatforms)
  /\ LET p == enabledPlatforms[cur[c].k]
         item == CurrentItem(c)
     IN IF ~NeedsPost(item, p)
        THEN /\ cur' = [cur EXCEPT ![c].k = @ + 1]
             /\ UNCHANGED <<data, stats, calls, failBudget>>
        ELSE \E o \in PostOutcomes :
               LET r == syncItemToPlatform(item, p, o, clock)
               IN /\ o # "ok" => failBudget > 0
                  /\ failBudget' = Spend(o)
                  /\ calls' = [calls EXCEPT ![c] = Append(@, <<item.guid, p, o>>)]
                  /\ data' = SetItem(data, Positions(data)[cur[c].pos], r.item)
                  /\ IF r.ret = "throw"
                     THEN /\ stats' = [stats EXCEPT ![c] = CountError(@)]
                          /\ cur' = [cur EXCEPT ![c] =
                                       [pos |-> @.pos + 1, k |-> 0, synced |-> FALSE]]
                     ELSE /\ cur' = [cur EXCEPT ![c].k = @ + 1,
                                                ![c].synced = @ \/ r.ret = "true"]
                          /\ UNCHANGED stats
  /\ UNCHANGED <<enabledPlatforms, adapters, file, syncInProgress, lastSyncTime, pc,
                 startTime, loaded, outcome, clock, dropped>>

\* syncItem returns its result to syncUserData, which counts it.
syncItemEnd(c) ==
  /\ UNCHANGED logVars
  /\ UNCHANGED resolverVars
  /\ UNCHANGED adapterVars
  /\ UNCHANGED botVars
  /\ UNCHANGED syncInterval
  /\ Walking(c)
  /\ cur[c].k > Len(enabledPlatforms)
  /\ stats' = [stats EXCEPT ![c] = CountSynced(@, cur[c].synced)]
  /\ cur' = [cur EXCEPT ![c] = [pos |-> @.pos + 1, k |-> 0, synced |-> FALSE]]
  /\ UNCHANGED <<enabledPlatforms, adapters, file, data, syncInProgress, lastSyncTime,
                 pc, startTime, loaded, calls, outcome, clock, failBudget, dropped>>

\* All users are processed: lastSync is set on the object that is db.data by
\* now (the assignment throws when that object has no consensus metadata)
\* and storage.writeDB() settles; the finally block clears the flag whether
\* or not the pass threw.
writeDB(c) ==
  /\ UNCHANGED logVars
  /\ UNCHANGED resolverVars
  /\ UNCHANGED adapterVars
  /\ UNCHANGED <<xpost, added, timers>>
  /\ UNCHANGED syncInterval
  /\ pc[c] = "walk"
  /\ cur[c].pos > Len(Positions(data))
  /\ LET db == IF dbdata.replaced THEN dbdata.data ELSE data
     IN IF ~db.consensus.exists
        THEN /\ data' = db
             /\ outcome' = [outcome EXCEPT ![c] = "updateFailed"]
             /\ UNCHANGED <<file, lastSyncTime, failBudget>>
        ELSE \E o \in {"ok", "throw"} :
               /\ o # "ok" => failBudget > 0
               /\ failBudget' = Spend(o)
               /\ data' = [db EXCEPT !.consensus.lastSync = startTime[c]]
               /\ lastSyncTime' = startTime[c]
               /\ file' = IF o = "ok" THEN data' ELSE file
               /\ outcome' = [outcome EXCEPT ![c] =
                                IF o = "ok" THEN "completed" ELSE "writeFailed"]
  /\ dbdata' = Current
  /\ syncInProgress' = FALSE
  /\ pc' = [pc EXCEPT ![c] = "idle"]
  /\ UNCHANGED <<enabledPlatforms, adapters, startTime, stats, cur, loaded, calls,
                 clock, dropped>>

\* How the promise of a syncPlatforms call settles for the caller, by the
\* outcome of the pass: the catch block logs the error without rethrowing and
\* the skip path returns, so the promise is fulfilled (with undefined) always.
Settlement(o) ==
  CASE o = "completed" -> "fulfilled"
    [] o = "readFailed" -> "fulfilled"
    [] o = "writeFailed" -> "fulfilled"
    [] o = "updateFailed" -> "fulfilled"
    [] OTHER -> "pending"

Pass(c) ==
  \/ syncPlatforms(c)
  \/ readDB(c)
  \/ syncItemBegin(c)
  \/ syncItemPlatform(c)
  \/ syncItemEnd(c)
  \/ writeDB(c)


-----------------------------------------------------------------------------
(* StorageWithLog: the differ *)

\* The call of StorageWithLog.writeDB of a handler that awaits each call
\* before it makes the next one.
Writers == {"w1"}

\* The calls of StorageWithLog.writeDB that can be in progress at a time.
OverlappingWriters == {"w1", "w2"}

NoPayload == [kind |-> "none", guid |-> "", description |-> <<>>, channelMessageId |-> 0,
              time |-> 0, needs |-> 0, resources |-> 0]

\* The payload of an entity change: guid, description, channelMessageId and,
\* for create / update, createdAt / updatedAt (time; 0 when not carried).
ItemPayload(g, desc, msg, t) ==
  [NoPayload EXCEPT !.kind = "item", !.guid = g, !.description = desc,
                    !.channelMessageId = msg, !.time = t]

\* The payload of a user change: the lengths of the two collections.
CountPayload(n, r) == [NoPayload EXCEPT !.kind = "counts", !.needs = n, !.resources = r]

Change(op, entity, userId, d, prev) ==
  [operation |-> op, entity |-> entity, userId |-> userId, data |-> d,
   previousData |-> prev]

Guids(items) == {items[i].guid : i \in 1..Len(items)}

Lookup(items, g) == items[CHOOSE i \in 1..Len(items) : items[i].guid = g]

\* Mutant of OmitUpdatedAt: updatedAt takes part in the comparison.
OmitNothing(item) == item

\* detectItemChanges, lines 438-439: _.omit(item, 'updatedAt')
OmitUpdatedAt(item) == [item EXCEPT !.updatedAt = 0]

\* Mutant of Differs: every pair of entities counts as different.
DiffersAlways(currentItem, previousItem) == TRUE

\* Mutant of Differs: the whole entities are compared.
DiffersStrictly(currentItem, previousItem) == currentItem # previousItem

\* detectItemChanges, line 441: !_.isEqual(currentClean, previousClean)
Differs(currentItem, previousItem) ==
  OmitUpdatedAt(currentItem) # OmitUpdatedAt(previousItem)

\* detectItemChanges, line 417: !previousMap.has(guid)
IsNewItem(item, previousItems) == item.guid \notin Guids(previousItems)

\* detectItemChanges, lines 416-430.
ItemCreates(userId, entity, currentItems, previousItems) ==
  LET new == SelectSeq(currentItems, LAMBDA it : IsNewItem(it, previousItems))
  IN [i \in 1..Len(new) |->
        Change("create", entity, userId,
               ItemPayload(new[i].guid, new[i].description, new[i].channelMessageId,
                           new[i].createdAt),
               NoPayload)]

\* detectItemChanges, lines 433-458.
ItemUpdates(userId, entity, currentItems, previousItems) ==
  LET upd == SelectSeq(currentItems,
                       LAMBDA it : /\ it.guid \in Guids(previousItems)
                                   /\ Differs(it, Lookup(previousItems, it.guid)))
  IN [i \in 1..Len(upd) |->
        Change("update", entity, userId,
               ItemPayload(upd[i].guid, upd[i].description, upd[i].channelMessageId,
                           upd[i].updatedAt),
               ItemPayload("", Lookup(previousItems, upd[i].guid).description,
                           Lookup(previousItems, upd[i].guid).channelMessageId, 0))]

\* detectItemChanges, lines 461-474.
ItemDeletes(userId, entity, currentItems, previousItems) ==
  LET del == SelectSeq(previousItems, LAMBDA it : it.guid \notin Guids(currentItems))
  IN [i \in 1..Len(del) |->
        Change("delete", entity, userId, NoPayload,
               ItemPayload(del[i].guid, del[i].description, del[i].channelMessageId, 0))]

detectItemChanges(userId, entity, currentItems, previousItems) ==
  ItemCreates(userId, entity, currentItems, previousItems)
    \o ItemUpdates(userId, entity, currentItems, previousItems)
    \o ItemDeletes(userId, entity, currentItems, previousItems)

\* detectChanges, lines 349-361, 364-387 and 390-402, for one user id.
NewUserChanges(u, cu, pu) ==
  IF u \in DOMAIN cu /\ u \notin DOMAIN pu
  THEN <<Change("create", "user", u,
                CountPayload(Len(cu[u].needs), Len(cu[u].resources)), NoPayload)>>
  ELSE <<>>

ExistingUserChanges(u, cu, pu) ==
  IF u \in DOMAIN cu /\ u \in DOMAIN pu
  THEN detectItemChanges(u, "need", cu[u].needs, pu[u].needs)
         \o detectItemChanges(u, "resource", cu[u].resources, pu[u].resources)
  ELSE <<>>

DeletedUserChanges(u, cu, pu) ==
  IF u \in DOMAIN pu /\ u \notin DOMAIN cu
  THEN <<Change("delete", "user", u, NoPayload,
                CountPayload(Len(pu[u].needs), Len(pu[u].resources)))>>
  ELSE <<>>

RECURSIVE OverUsers(_, _, _, _)
OverUsers(n, kind, cu, pu) ==
  IF n = 0 THEN <<>>
  ELSE OverUsers(n - 1, kind, cu, pu)
         \o (CASE kind = "new" -> NewUserChanges(UserOrder[n], cu, pu)
               [] kind = "existing" -> ExistingUserChanges(UserOrder[n], cu, pu)
               [] OTHER -> DeletedUserChanges(UserOrder[n], cu, pu))

\* detectChanges: no change is reported while no previous state is captured.
detectChanges(hasPrevious, previous, current) ==
  IF ~hasPrevious THEN <<>>
  ELSE OverUsers(Len(UserOrder), "new", current.users, previous.users)
         \o OverUsers(Len(UserOrder), "existing", current.users, previous.users)
         \o OverUsers(Len(UserOrder), "deleted", current.users, previous.users)


-----------------------------------------------------------------------------
(* PublicLog and StorageWithLog.writeDB, one action per suspension point *)

MaxEdits == 1

MaxSink == 2

MaxLogFailures == 1

\* The log calls, delivered or not, are capped at the number of messages.
MaxTx == MaxSink

\* storage.db.data before the first read (null).
NullData == Snapshot(EmptyUsers, NoConsensus)

EmptyStore == Snapshot(EmptyUsers, NoConsensus)

NewGuids == <<"n1", "n2", "n3", "n4">>

LogOutcomes == {"ok", "fail", "throw"}

-----------------------------------------------------------------------------
(* PublicLog: the encoding of a transaction as a channel message *)

\* A message is a sequence of lines, a line a sequence of tokens. A token is
\* template text (lit), a number (num), a time stamp (time), a name copied
\* from the change as it is (id: operation, entity, user id, guid) or the
\* rendering of a text value (str, a sequence of characters).
Token(kind, text, chars, num) == [kind |-> kind, text |-> text, chars |-> chars, num |-> num]

Lit(s) == Token("lit", s, <<>>, 0)

Id(s) == Token("id", s, <<>>, 0)

Num(n) == Token("num", "", <<>>, n)

Time(t) == Token("time", "", <<>>, t)

Str(cs) == Token("str", "", cs, 0)

\* appendDataToLino, line 147: value.length > 100
TruncateOver == 100

\* appendDataToLino, line 147: value.substring(0, 97)
KeptChars == 97

Ellipsis == <<".", ".", ".">>

\* Mutant of Truncate: the text is cut at the threshold, with no ellipsis.
TruncateAtThreshold(value) ==
  IF Len(value) > TruncateOver THEN SubSeq(value, 1, TruncateOver) ELSE value

\* appendDataToLino, line 147.
Truncate(value) ==
  IF Len(value) > TruncateOver THEN SubSeq(value, 1, KeptChars) \o Ellipsis ELSE value

\* Mutant of EscapeChar: only the opening bracket is replaced.
EscapeOpeningOnly(c) == IF c = "<" THEN <<"&", "l", "t", ";">> ELSE <<c>>

\* appendDataToLino, line 148: what one character becomes.
EscapeChar(c) ==
  CASE c = "<" -> <<"&", "l", "t", ";">>
    [] c = ">" -> <<"&", "g", "t", ";">>
    [] OTHER -> <<c>>

\* appendDataToLino, line 148: replace(/</g, '&lt;').replace(/>/g, '&gt;')
RECURSIVE Escape(_)
Escape(value) ==
  IF value = <<>> THEN <<>>
  ELSE IF Len(value) = 1 THEN EscapeChar(value[1])
  ELSE LET half == Len(value) \div 2
       IN Escape(SubSeq(value, 1, half)) \o Escape(SubSeq(value, half + 1, Len(value)))

\* Mutant of Render: the text is escaped first and truncated afterwards.
RenderEscapeFirst(value) == Truncate(Escape(value))

\* appendDataToLino, lines 145-149: a string value is truncated, then escaped.
Render(value) == Escape(Truncate(value))

Field(indent, key, value) == <<Lit(indent), Lit(key), Lit(": "), value>>

\* appendDataToLino over the entries of a payload, in the order the differ
\* wrote them; an absent entry (guid "", time 0) is undefined and skipped.
\* timeKey is the name of the time entry (createdAt or updatedAt).
appendDataToLino(d, indent, timeKey) ==
  CASE d.kind = "item" ->
         (IF d.guid # "" THEN <<Field(indent, "guid", Id(d.guid))>> ELSE <<>>)
           \o <<Field(indent, "description", Str(Render(d.description))),
                Field(indent, "channelMessageId", Num(d.channelMessageId))>>
           \o (IF d.time # 0 THEN <<Field(indent, timeKey, Time(d.time))>> ELSE <<>>)
    [] d.kind = "counts" ->
         <<Field(indent, "needs", Num(d.needs)),
           Field(indent, "resources", Num(d.resources))>>
    [] OTHER -> <<>>

\* buildLinoChange, lines 104-131.
buildLinoChange(txId, timestamp, change) ==
  <<<<Lit("<b>Transaction: "), Num(txId), Lit("</b>")>>,
    <<Lit("<code>"), Time(timestamp), Lit("</code>")>>,
    <<>>,
    <<Lit("(change:")>>,
    <<Lit("  operation: "), Id(change.operation)>>,
    <<Lit("  entity: "), Id(change.entity)>>,
    <<Lit("  userId: "), Id(change.userId)>>>>
    \o (IF change.data.kind # "none"
        THEN <<<<Lit("  data:")>>>>
               \o appendDataToLino(change.data, "    ",
                                   IF change.operation = "create" THEN "createdAt"
                                   ELSE "updatedAt")
        ELSE <<>>)
    \o (IF change.previousData.kind # "none" /\ change.operation = "update"
        THEN <<<<Lit("  previousData:")>>>>
               \o appendDataToLino(change.previousData, "    ", "updatedAt")
        ELSE <<>>)
    \o <<<<Lit(")")>>>>

\* logBatchChanges, line 187: the one-line summary of the i-th change.
Summary(i, ch) ==
  <<Num(i), Lit(". "), Id(ch.operation), Lit(" "), Id(ch.entity), Lit(" (user: "),
    Id(ch.userId), Lit(")")>>

\* Mutant of buildBatch: the summaries are replaced by the full blocks.
buildBatchInFull(txId, timestamp, changes) ==
  <<<<Lit("<b>Batch Transaction: "), Num(txId), Lit("</b>")>>,
    <<Lit("<code>"), Time(timestamp), Lit("</code>")>>,
    <<Lit("<i>"), Num(Len(changes)), Lit(" changes</i>")>>,
    <<>>>>
    \o buildLinoChange(txId, timestamp, changes[1])

\* logBatchChanges, lines 179-190.
buildBatch(txId, timestamp, changes) ==
  <<<<Lit("<b>Batch Transaction: "), Num(txId), Lit("</b>")>>,
    <<Lit("<code>"), Time(timestamp), Lit("</code>")>>,
    <<Lit("<i>"), Num(Len(changes)), Lit(" changes</i>")>>,
    <<>>>>
    \o [i \in 1..Len(changes) |-> Summary(i, changes[i])]

\* Mutant of Encode: every write is sent as a batch.
EncodeAsBatch(txId, timestamp, changes) == buildBatch(txId, timestamp, changes)

\* What writeDB has the public log send: logChange for one change,
\* logBatchChanges for several (writeDB, lines 312-316).
Encode(txId, timestamp, changes) ==
  IF Len(changes) = 1 THEN buildLinoChange(txId, timestamp, changes[1])
  ELSE buildBatch(txId, timestamp, changes)

-----------------------------------------------------------------------------
(* PublicLog: transactions *)

\* Mutant of uuidv7: the identifier does not depend on the generator's state.
uuidConstant(last) == 1

\* uuidv7(): a time-sortable identifier, later than every identifier the
\* generator has issued before (last).
uuidv7(last) == last + 1

\* The generator's state: the last identifier issued (0 before the first).
LastIssued == IF issued = <<>> THEN 0 ELSE issued[Len(issued)]

\* event records what happened to the call (see logChange); "pending" until
\* the call settles.
NoTx == [txId |-> 0, messageId |-> 0, confirmed |-> FALSE, error |-> FALSE,
         threw |-> FALSE, sent |-> 0, event |-> "pending"]

Tx(txId, messageId, confirmed, error, threw, sent) ==
  [txId |-> txId, messageId |-> messageId, confirmed |-> confirmed, error |-> error,
   threw |-> threw, sent |-> sent, event |-> "pending"]

\* Mutant of logChange: a rejected sendMessage is not caught.
logChangeRethrows(hasChannel, txId, e, messageId) ==
  IF ~hasChannel THEN Tx(txId, 0, TRUE, FALSE, e = "crash", 0)
  ELSE IF e = "ok" THEN Tx(txId, messageId, TRUE, FALSE, FALSE, 1)
  ELSE Tx(txId, 0, FALSE, FALSE, TRUE, 0)

\* logChange / logBatchChanges, lines 30-97 and 161-218: what the call
\* returns. e is what happened: "none" (no channel, nothing is sent), "ok"
\* (sendMessage resolved with id messageId), "reject" (sendMessage rejected)
\* or "crash" (the call failed for a reason other than the channel). messageId
\* 0 is null; sent is the number of messages put in the channel.
logChange(hasChannel, txId, e, messageId) ==
  IF e = "crash" THEN Tx(txId, 0, FALSE, FALSE, TRUE, 0)
  ELSE IF ~hasChannel THEN Tx(txId, 0, TRUE, FALSE, FALSE, 0)
  ELSE IF e = "ok" THEN Tx(txId, messageId, TRUE, FALSE, FALSE, 1)
  ELSE Tx(txId, 0, FALSE, TRUE, FALSE, 0)

\* logBatchChanges, lines 161-218: the same four ways to return.
logBatchChanges(hasChannel, txId, e, messageId) ==
  IF e = "crash" THEN Tx(txId, 0, FALSE, FALSE, TRUE, 0)
  ELSE IF ~hasChannel THEN Tx(txId, 0, TRUE, FALSE, FALSE, 0)
  ELSE IF e = "ok" THEN Tx(txId, messageId, TRUE, FALSE, FALSE, 1)
  ELSE Tx(txId, 0, FALSE, TRUE, FALSE, 0)

\* Mutant of sendMessage: the last message of the channel is edited.
editLastMessage(channel, message) ==
  IF channel = <<>> THEN <<message>> ELSE [channel EXCEPT ![Len(channel)] = message]

\* telegram.sendMessage resolved: the message is the channel's newest.
sendMessage(channel, message) == Append(channel, message)

\* How writeDB sees the log call: confirmed ("ok"), unconfirmed ("fail"),
\* rejected ("throw") or local-only ("local").
LogOutcome(hasChannel, tx) ==
  IF tx.threw THEN "throw"
  ELSE IF ~hasChannel THEN "local"
  ELSE IF tx.confirmed THEN "ok" ELSE "fail"

\* Mutant of ProceedsToWrite: the local write is made only when the log call
\* returned a confirmed transaction.
ProceedsWhenConfirmed(o) == o \in {"ok", "local"}

\* writeDB, lines 311-323: whatever the log call did (o), the catch block
\* swallows it and the local write follows.
ProceedsToWrite(o) == TRUE

\* StorageWithLog.initDB: storage.initDB() and captureState().
initDB ==
  /\ UNCHANGED syncVars
  /\ UNCHANGED resolverVars
  /\ UNCHANGED adapterVars
  /\ UNCHANGED botVars
  /\ UNCHANGED <<issued, wtx>>
  /\ ~captured
  /\ data' = file
  /\ previousState' = file
  /\ captured' = TRUE
  /\ UNCHANGED <<file, logChannel, sink, wpc, wchanges, wsnap, edits, diffed>>
  /\ wlog' = [w \in OverlappingWriters |-> IF wlog[w] = "skipped" THEN "none" ELSE wlog[w]]

EnsureUser(d, u) ==
  IF u \in DOMAIN d.users THEN d
  ELSE [d EXCEPT !.users = Put(@, u, User(<<>>, <<>>))]

\* StorageWithLog.getUserData -> Storage.getUserData: the store is re-read
\* and the user created in memory when missing.
getUserData(u) ==
  /\ UNCHANGED syncVars
  /\ UNCHANGED resolverVars
  /\ UNCHANGED adapterVars
  /\ UNCHANGED botVars
  /\ UNCHANGED <<issued, wtx>>
  /\ captured
  /\ data' = EnsureUser(file, u)
  /\ UNCHANGED <<file, captured, previousState, logChannel, sink, wpc, wchanges, wsnap,
                 edits, diffed>>
  /\ wlog' = [w \in OverlappingWriters |-> IF wlog[w] = "skipped" THEN "none" ELSE wlog[w]]

\* A handler of the bot pushes a new entity (index.js, lines 485-538).
addItem(u, t) ==
  /\ UNCHANGED syncVars
  /\ UNCHANGED resolverVars
  /\ UNCHANGED adapterVars
  /\ UNCHANGED botVars
  /\ UNCHANGED <<issued, wtx>>
  /\ captured
  /\ edits < MaxEdits
  /\ u \in DOMAIN data.users
  /\ data' = [data EXCEPT !.users[u][t] =
                Append(@, Item(NewGuids[edits + 1], D1, edits + 1, 101, FALSE, "none",
                               NoPlatforms, "pending"))]
  /\ edits' = edits + 1
  /\ UNCHANGED <<file, captured, previousState, logChannel, sink, wpc, wchanges, wsnap,
                 diffed>>
  /\ wlog' = [w \in OverlappingWriters |-> IF wlog[w] = "skipped" THEN "none" ELSE wlog[w]]

RemoveAt(items, i) == [j \in 1..(Len(items) - 1) |-> IF j < i THEN items[j] ELSE items[j + 1]]

\* A handler removes an entity (index.js, lines 710-720).
removeItem(u, t) ==
  /\ UNCHANGED syncVars
  /\ UNCHANGED resolverVars
  /\ UNCHANGED adapterVars
  /\ UNCHANGED botVars
  /\ UNCHANGED <<issued, wtx>>
  /\ captured
  /\ edits < MaxEdits
  /\ u \in DOMAIN data.users
  /\ \E i \in 1..Len(data.users[u][t]) :
       data' = [data EXCEPT !.users[u][t] = RemoveAt(@, i)]
  /\ edits' = edits + 1
  /\ UNCHANGED <<file, captured, previousState, logChannel, sink, wpc, wchanges, wsnap,
                 diffed>>
  /\ wlog' = [w \in OverlappingWriters |-> IF wlog[w] = "skipped" THEN "none" ELSE wlog[w]]

\* A handler bumps an entity: new channel message, new updatedAt
\* (index.js, lines 761-763).
bumpItem(u, t) ==
  /\ UNCHANGED syncVars
  /\ UNCHANGED resolverVars
  /\ UNCHANGED adapterVars
  /\ UNCHANGED botVars
  /\ UNCHANGED <<issued, wtx>>
  /\ captured
  /\ edits < MaxEdits
  /\ u \in DOMAIN data.users
  /\ \E i \in 1..Len(data.users[u][t]) :
       data' = [data EXCEPT !.users[u][t][i].channelMessageId = @ + 1,
                            !.users[u][t][i].updatedAt = @ + 1]
  /\ edits' = edits + 1
  /\ UNCHANGED <<file, captured, previousState, logChannel, sink, wpc, wchanges, wsnap,
                 diffed>>
  /\ wlog' = [w \in OverlappingWriters |-> IF wlog[w] = "skipped" THEN "none" ELSE wlog[w]]

\* writeDB is called: the changes are detected; with none the call returns,
\* otherwise the public log is called and awaited.
writeDBCall(w) ==
  /\ UNCHANGED syncVars
  /\ UNCHANGED resolverVars
  /\ UNCHANGED adapterVars
  /\ UNCHANGED botVars
  /\ wpc[w] = "idle"
  /\ LET changes == detectChanges(captured, previousState, data)
         txId == uuidv7(LastIssued)
     IN IF Len(changes) = 0
        THEN /\ wlog' = [wlog EXCEPT ![w] = "skipped"]
             /\ UNCHANGED <<wpc, wchanges, issued, wtx>>
        ELSE /\ Len(sink) < MaxSink
             /\ Len(issued) < MaxTx
             /\ wpc' = [wpc EXCEPT ![w] = "logging"]
             /\ wchanges' = [wchanges EXCEPT ![w] = changes]
             /\ issued' = Append(issued, txId)
             /\ wtx' = [wtx EXCEPT ![w] = [NoTx EXCEPT !.txId = txId]]
             /\ wlog' = [wlog EXCEPT ![w] = "none"]
  /\ UNCHANGED <<file, data, captured, previousState, logChannel, sink, wsnap, edits,
                 diffed>>

\* The log call settles. e is what happened to it: with no channel nothing
\* is sent ("none"); otherwise sendMessage resolved ("ok", the message is in
\* the channel) or rejected ("reject"); "crash" is the log call failing for
\* another reason. Then storage.writeDB() is called with the snapshot.
logSettles(w) ==
  /\ UNCHANGED passVars
  /\ UNCHANGED resolverVars
  /\ UNCHANGED adapterVars
  /\ UNCHANGED botVars
  /\ wpc[w] = "logging"
  /\ \E e \in (IF logChannel THEN {"ok", "reject", "crash"} ELSE {"none", "crash"}) :
       LET ret == IF Len(wchanges[w]) = 1
                  THEN logChange(logChannel, wtx[w].txId, e, Len(sink) + 1)
                  ELSE logBatchChanges(logChannel, wtx[w].txId, e, Len(sink) + 1)
           tx == [ret EXCEPT !.event = e]
           o == LogOutcome(logChannel, tx)
       IN /\ e \in {"reject", "crash"} => failBudget > 0
          /\ failBudget' = IF e \in {"reject", "crash"} THEN failBudget - 1 ELSE failBudget
          /\ sink' = IF tx.sent = 1
                     THEN sendMessage(sink, Encode(tx.txId, tx.txId, wchanges[w]))
                     ELSE sink
          /\ IF ProceedsToWrite(o)
             THEN /\ wpc' = [wpc EXCEPT ![w] = "writing"]
                  /\ wsnap' = [wsnap EXCEPT ![w] = data]
                  /\ wlog' = [wlog EXCEPT ![w] = o]
                  /\ wtx' = [wtx EXCEPT ![w] = tx]
                  /\ UNCHANGED wchanges
             ELSE /\ wpc' = [wpc EXCEPT ![w] = "idle"]
                  /\ wlog' = [wlog EXCEPT ![w] = "none"]
                  /\ wtx' = [wtx EXCEPT ![w] = NoTx]
                  /\ wchanges' = [wchanges EXCEPT ![w] = <<>>]
                  /\ UNCHANGED wsnap
  /\ UNCHANGED <<file, data, captured, previousState, logChannel, edits, diffed, issued>>

\* Mutant of storeWriteSettles: a rejected write is caught and the snapshot is
\* recaptured as after a successful one.
storeWriteCaught(w) ==
  /\ UNCHANGED passVars
  /\ UNCHANGED resolverVars
  /\ UNCHANGED adapterVars
  /\ UNCHANGED botVars
  /\ wpc[w] = "writing"
  /\ \E o \in {"ok", "throw"} :
       /\ o # "ok" => failBudget > 0
       /\ failBudget' = Spend(o)
       /\ file' = IF o = "ok" THEN wsnap[w] ELSE file
       /\ wpc' = [wpc EXCEPT ![w] = "capturing"]
       /\ UNCHANGED <<wlog, wchanges, wsnap, wtx>>
  /\ UNCHANGED <<data, captured, previousState, logChannel, sink, edits, diffed, issued>>

\* storage.writeDB() settles; on success captureState() starts re-reading.
storeWriteSettles(w) ==
  /\ UNCHANGED passVars
  /\ UNCHANGED resolverVars
  /\ UNCHANGED adapterVars
  /\ UNCHANGED botVars
  /\ wpc[w] = "writing"
  /\ \E o \in {"ok", "throw"} :
       /\ o # "ok" => failBudget > 0
       /\ failBudget' = Spend(o)
       /\ IF o = "ok"
          THEN /\ file' = wsnap[w]
               /\ wpc' = [wpc EXCEPT ![w] = "capturing"]
               /\ UNCHANGED <<wlog, wchanges, wsnap, wtx>>
          ELSE /\ wpc' = [wpc EXCEPT ![w] = "idle"]
               /\ wlog' = [wlog EXCEPT ![w] = "none"]
               /\ wtx' = [wtx EXCEPT ![w] = NoTx]
               /\ wchanges' = [wchanges EXCEPT ![w] = <<>>]
               /\ wsnap' = [wsnap EXCEPT ![w] = NullData]
               /\ UNCHANGED file
  /\ UNCHANGED <<data, captured, previousState, logChannel, sink, edits, diffed, issued>>

\* captureState: storage.readDB() settles and the snapshot is cloned.
captureSettles(w) ==
  /\ UNCHANGED passVars
  /\ UNCHANGED resolverVars
  /\ UNCHANGED adapterVars
  /\ UNCHANGED botVars
  /\ wpc[w] = "capturing"
  /\ \E o \in {"ok", "throw"} :
       /\ o # "ok" => failBudget > 0
       /\ failBudget' = Spend(o)
       /\ IF o = "ok"
          THEN /\ data' = file
               /\ previousState' = file
               /\ captured' = TRUE
          ELSE UNCHANGED <<data, previousState, captured>>
  /\ wpc' = [wpc EXCEPT ![w] = "idle"]
  /\ wlog' = [wlog EXCEPT ![w] = "none"]
  /\ wchanges' = [wchanges EXCEPT ![w] = <<>>]
  /\ wsnap' = [wsnap EXCEPT ![w] = NullData]
  /\ wtx' = [wtx EXCEPT ![w] = NoTx]
  /\ UNCHANGED <<file, logChannel, sink, edits, diffed, issued>>

\* The differ applied to a pair of snapshots (pure-function runs).
applyDetectChanges ==
  /\ UNCHANGED syncVars
  /\ UNCHANGED resolverVars
  /\ UNCHANGED adapterVars
  /\ UNCHANGED botVars
  /\ UNCHANGED <<issued, wtx>>
  /\ ~diffed
  /\ diffed' = TRUE
  /\ wchanges' = [w \in OverlappingWriters |-> detectChanges(captured, previousState, data)]
  /\ UNCHANGED <<file, data, captured, previousState, logChannel, sink, wpc, wsnap, wlog,
                 edits>>

-----------------------------------------------------------------------------
(* ConsensusSyncService: the conflict resolver *)

MaxCandidates == 3

MaxTime == MaxCandidates

MaxConflicts == 2

ConflictIds == {"c1", "c2", "c3", "c4"}

\* A candidate entity variant of a conflict.
Candidate(g, upd, origin) == Item(g, D1, upd, 101, TRUE, origin, NoPlatforms, "pending")

NoCandidate == Candidate("", 0, "none")

\* What handleConflict returns: a candidate, undefined (sortedItems[0] of an
\* empty array) or null; "none" before any call.
NotCalled == [kind |-> "none", item |-> NoCandidate]

Returned(item) == [kind |-> "item", item |-> item]

Undefined == [kind |-> "undefined", item |-> NoCandidate]

\* The call rejected (a TypeError out of recordForManualResolution).
Threw == [kind |-> "threw", item |-> NoCandidate]

Null == [kind |-> "null", item |-> NoCandidate]

NoConflict == [type |-> "none", items |-> <<>>]

\* options.platformPriority: absent, or an array of platform names.
NoPriority == [configured |-> FALSE, list |-> <<>>]

Priority(list) == [configured |-> TRUE, list |-> list]

\* constructor, lines 14-20: options.conflictResolution || 'timestamp', then
\* the spread of options, which puts back a property set to undefined.
ConfiguredPolicy(option) == IF option = "absent" THEN "timestamp" ELSE option

\* Mutant of newerFirst: the comparison is ascending.
olderFirst(a, b) == a.updatedAt - b.updatedAt

\* resolveByTimestamp, lines 340-342: the comparison function of the sort.
newerFirst(a, b) == b.updatedAt - a.updatedAt

\* Array.prototype.sort with that comparison: a stable sort, so an element
\* goes behind every element that does not compare after it.
InsertSorted(sorted, item) ==
  LET k == Cardinality({i \in 1..Len(sorted) : newerFirst(sorted[i], item) <= 0})
  IN SubSeq(sorted, 1, k) \o <<item>> \o SubSeq(sorted, k + 1, Len(sorted))

RECURSIVE sort(_)
sort(items) ==
  IF items = <<>> THEN <<>>
  ELSE InsertSorted(sort(SubSeq(items, 1, Len(items) - 1)), items[Len(items)])

\* resolveByTimestamp, lines 338-344: conflict.items is sorted in place and
\* its first element returned.
resolveByTimestamp(cf) ==
  LET sortedItems == sort(cf.items)
  IN [conflict |-> [cf EXCEPT !.items = sortedItems],
      winner |-> IF sortedItems = <<>> THEN Undefined ELSE Returned(sortedItems[1])]

\* Mutant of resolveByPlatformPriority: the first candidate of any listed
\* platform wins.
resolveByAnyListedPlatform(priority, cf) ==
  LET list == IF priority.configured THEN priority.list ELSE <<"telegram", "vk">>
      listed == {i \in 1..Len(cf.items) :
                   \E k \in 1..Len(list) : cf.items[i].originPlatform = list[k]}
  IN IF listed = {} THEN resolveByTimestamp(cf)
     ELSE [conflict |-> cf,
           winner |-> Returned(cf.items[CHOOSE i \in listed : \A j \in listed : i <= j])]

\* resolveByPlatformPriority, lines 349-361.
resolveByPlatformPriority(priority, cf) ==
  LET priorityList == IF priority.configured THEN priority.list
                           ELSE <<"telegram", "vk">>
      found(k) == {i \in 1..Len(cf.items) :
                     cf.items[i].originPlatform = priorityList[k]}
      matched == {k \in 1..Len(priorityList) : found(k) # {}}
  IN IF matched = {} THEN resolveByTimestamp(cf)
     ELSE LET k == CHOOSE k \in matched : \A l \in matched : k <= l
              i == CHOOSE i \in found(k) : \A j \in found(k) : i <= j
          IN [conflict |-> cf, winner |-> Returned(cf.items[i])]

\* recordForManualResolution, lines 366-376.
ConflictRecord(id, cf) == [id |-> id, type |-> cf.type, status |-> "pending", data |-> cf]

\* recordForManualResolution, lines 366-376: the push onto
\* storage.db.data.consensus.conflicts throws when db.data has no consensus
\* property; otherwise one record is pushed and null returned.
recordForManualResolution(queue, cf, id) ==
  IF queue.exists
  THEN [winner |-> Null, pushed |-> <<ConflictRecord(id, cf)>>]
  ELSE [winner |-> Threw, pushed |-> <<>>]

\* handleConflict, lines 322-333: the conflict record after the call, the
\* value returned, and the records pushed to the queue.
resolve(policy, priority, cf, queue, id) ==
  LET byTimestamp == resolveByTimestamp(cf)
      byPriority == resolveByPlatformPriority(priority, cf)
      manual == recordForManualResolution(queue, cf, id)
  IN CASE policy = "timestamp" ->
            [conflict |-> byTimestamp.conflict, winner |-> byTimestamp.winner,
             pushed |-> <<>>]
       [] policy = "platform_priority" ->
            [conflict |-> byPriority.conflict, winner |-> byPriority.winner,
             pushed |-> <<>>]
       [] policy = "manual" ->
            [conflict |-> cf, winner |-> manual.winner, pushed |-> manual.pushed]
       [] OTHER ->
            [conflict |-> byTimestamp.conflict, winner |-> byTimestamp.winner,
             pushed |-> <<>>]

QueuedIds(d) == {d.consensus.conflicts[i].id : i \in 1..Len(d.consensus.conflicts)}

\* handleConflict runs to its end without suspension; the queue is the one
\* of the in-memory snapshot, which nothing here writes to the store.
handleConflict ==
  /\ conflict # NoConflict
  /\ Len(data.consensus.conflicts) < MaxConflicts
  /\ \E id \in ConflictIds \ QueuedIds(data) :
       LET r == resolve(conflictResolution, platformPriority, conflict, data.consensus, id)
       IN /\ conflict' = r.conflict
          /\ winner' = r.winner
          /\ data' = [data EXCEPT !.consensus.conflicts = @ \o r.pushed]
  /\ UNCHANGED <<file, syncVars, logVars, adapterVars, botVars>>
  /\ UNCHANGED <<conflictResolution, platformPriority, candidates>>

-----------------------------------------------------------------------------
(* Platform adapters: deleteMessage *)

MaxMessages == 2

MessageIds == 1..MaxMessages

\* The adapter classes: TelegramAdapter and the placeholder VKAdapter of the
\* adapters module, and the wall-based VKAdapter.
AdapterVariants == {"TelegramAdapter", "VKAdapter", "VKWallAdapter"}

\* What the platform API answers to a delete of message id: "ok" (deleted),
\* "notFound" (Telegram 'message to delete not found', VK error code 210),
\* "denied" (VK error code 15) or "error" (any other failure). The
\* placeholder VKAdapter makes no API call.
ApiAnswers(a, present) ==
  CASE a = "VKAdapter" -> {"none"}
    [] a = "TelegramAdapter" -> IF present THEN {"ok", "error"} ELSE {"notFound", "error"}
    [] a = "VKWallAdapter" -> IF present THEN {"ok", "denied", "error"}
                              ELSE {"notFound", "denied", "error"}

\* TelegramAdapter.deleteMessage, lines 139-151.
TelegramDelete(answer) == answer \in {"ok", "notFound"}

\* VKAdapter.deleteMessage, lines 216-220: not implemented, returns false.
VKDelete(answer) == FALSE

\* VKAdapter.deleteMessage over wall.delete: true on success and on code 210.
VKWallDelete(answer) == answer \in {"ok", "notFound"}

NoDelete == [adapter |-> "", messageId |-> 0, absent |-> FALSE, answer |-> "none",
             result |-> FALSE]

AdapterIdle ==
  /\ remote = [a \in AdapterVariants |-> {}]
  /\ deleted = NoDelete

\* adapter.deleteMessage(messageId) is called and settles.
deleteMessage(a, id) ==
  /\ \E answer \in ApiAnswers(a, id \in remote[a]) :
       /\ remote' = [remote EXCEPT ![a] = IF answer = "ok" THEN @ \ {id} ELSE @]
       /\ deleted' = [adapter |-> a, messageId |-> id, absent |-> id \notin remote[a],
                      answer |-> answer,
                      result |-> CASE a = "TelegramAdapter" -> TelegramDelete(answer)
                                   [] a = "VKAdapter" -> VKDelete(answer)
                                   [] a = "VKWallAdapter" -> VKWallDelete(answer)]
  /\ UNCHANGED <<storeVars, syncVars, logVars, resolverVars, botVars>>

-----------------------------------------------------------------------------
(* ConsensusSyncService.crossPostContent and ConsensusBot.addItem *)

NoResults == [p \in {} |-> "ok"]

\* No call of crossPostContent has been made. exclude "none" models an absent
\* options.excludePlatform, originMessageId 0 an absent options.originMessageId;
\* results maps a platform to "ok" (success true) or "fail" (success false);
\* attempts lists the platforms whose postMessage was called.
NoCrossPost ==
  [pc |-> "idle", exclude |-> "none", originMessageId |-> 0, k |-> 0,
   originPlatform |-> "none", platforms |-> NoPlatforms, syncStatus |-> "pending",
   results |-> NoResults, attempts |-> <<>>, success |-> FALSE]

\* crossPostContent, lines 244-264: the item and the empty results.
CrossPostItem(exclude, originMessageId) ==
  [NoCrossPost EXCEPT !.pc = "loop", !.exclude = exclude,
                      !.originMessageId = originMessageId, !.k = 1,
                      !.originPlatform = IF exclude = "none" THEN "telegram" ELSE exclude]

\* crossPostContent, lines 301-302.
SuccessfulPlatforms(results) == Cardinality({p \in DOMAIN results : results[p] = "ok"})

TotalTargetPlatforms(exclude) ==
  Len(enabledPlatforms) - (IF exclude # "none" THEN 1 ELSE 0)

\* crossPostContent, lines 304-310.
CrossPostStatus(successful, total) ==
  IF successful = total THEN "synced"
  ELSE IF successful > 0 THEN "partial"
  ELSE "failed"

\* crossPostContent is called: the item is built and the loop is entered.
crossPostContent(exclude, originMessageId) ==
  /\ xpost.pc \in {"idle", "returned", "threw"}
  /\ added.pc = "idle"
  /\ xpost' = CrossPostItem(exclude, originMessageId)
  /\ UNCHANGED <<storeVars, syncVars, logVars, resolverVars, adapterVars>>
  /\ UNCHANGED <<added, dbdata, timers>>

\* One iteration of the platform loop: the excluded platform is recorded with
\* the origin message id, a platform without adapter is skipped, and for any
\* other platform adapter.postMessage settles with outcome o. The call is not
\* inside a try block: a rejected postMessage rejects crossPostContent.
crossPostPlatform ==
  /\ xpost.pc = "loop"
  /\ xpost.k \in 1..Len(enabledPlatforms)
  /\ LET p == enabledPlatforms[xpost.k]
     IN IF p = xpost.exclude
        THEN xpost' = [xpost EXCEPT !.k = @ + 1,
                                     !.platforms =
                                        IF xpost.originMessageId # 0
                                        THEN Put(@, p, PlatformEntry(xpost.originMessageId,
                                                                     clock))
                                        ELSE @]
        ELSE IF p \notin adapters
        THEN xpost' = [xpost EXCEPT !.k = @ + 1]
        ELSE \E o \in PostOutcomes :
               xpost' = IF o = "throw"
                        THEN [xpost EXCEPT !.pc = "threw", !.attempts = Append(@, p)]
                        ELSE [xpost EXCEPT !.k = @ + 1,
                                           !.attempts = Append(@, p),
                                           !.results = Put(@, p, o),
                                           !.platforms =
                                              IF o = "ok"
                                              THEN Put(@, p, PlatformEntry(NewMessageId,
                                                                           clock))
                                              ELSE @]
  /\ UNCHANGED <<storeVars, syncVars, logVars, resolverVars, adapterVars>>
  /\ UNCHANGED <<added, dbdata, timers>>

\* The loop is over: the sync status is computed and the result returned.
crossPostReturn ==
  /\ xpost.pc = "loop"
  /\ xpost.k > Len(enabledPlatforms)
  /\ xpost' = [xpost EXCEPT
                 !.pc = "returned",
                 !.syncStatus = CrossPostStatus(SuccessfulPlatforms(xpost.results),
                                                TotalTargetPlatforms(xpost.exclude)),
                 !.success = SuccessfulPlatforms(xpost.results) > 0]
  /\ UNCHANGED <<storeVars, syncVars, logVars, resolverVars, adapterVars>>
  /\ UNCHANGED <<added, dbdata, timers>>

NoItem == Item("", <<>>, 0, 0, FALSE, "none", NoPlatforms, "pending")

NotAdding == [pc |-> "idle", stale |-> FALSE, item |-> NoItem]

\* The user and the collection addItem adds to, and the guid uuidv7() returns.
AddedUser == "u1"

AddedField == "needs"

AddedGuid == "g4"

\* ConsensusBot.initialize, line 119: the sync service exists when more than
\* one adapter is configured.
SyncServiceExists == Cardinality(adapters) > 1

\* addItem, lines 175-190: the item before it is posted anywhere.
NewItem == Item(AddedGuid, D2, clock, 0, TRUE, "telegram", NoPlatforms, "pending")

\* addItem, lines 201-215: the item after the post to Telegram settled.
PostedToTelegram(item, o) ==
  IF o = "ok"
  THEN [item EXCEPT !.channelMessageId = NewMessageId,
                    !.platforms = Put(@, "telegram", PlatformEntry(NewMessageId, clock))]
  ELSE item

\* addItem, lines 232-233: Object.assign of the returned platforms and the
\* returned syncStatus.
Assigned(item, result) ==
  [item EXCEPT !.platforms = [p \in DOMAIN @ \cup DOMAIN result.platforms |->
                                IF p \in DOMAIN result.platforms
                                THEN result.platforms[p] ELSE @[p]],
               !.syncStatus = result.syncStatus]

\* addItem awaits storage.getUserData: the store is read again, which
\* replaces db.data by a new object (a running pass keeps the one it loaded),
\* and the user is created when absent.
addItemGetUserData ==
  /\ added.pc = "idle"
  /\ xpost.pc = "idle"
  /\ added' = [pc |-> "telegram", stale |-> FALSE, item |-> NewItem]
  /\ IF \E c \in Callers : pc[c] = "walk"
     THEN /\ dbdata' = [replaced |-> TRUE, data |-> EnsureUser(file, AddedUser)]
          /\ UNCHANGED data
     ELSE /\ data' = EnsureUser(file, AddedUser)
          /\ UNCHANGED dbdata
  /\ UNCHANGED <<file, syncVars, logVars, resolverVars, adapterVars>>
  /\ UNCHANGED <<xpost, timers>>

\* The post to Telegram settles with outcome o; with a sync service and a
\* channel message id, crossPostContent is called next.
addItemPosted ==
  /\ added.pc = "telegram"
  /\ \E o \in (IF "telegram" \in adapters THEN PostOutcomes ELSE {"throw"}) :
       LET item == PostedToTelegram(added.item, o)
       IN IF SyncServiceExists /\ item.channelMessageId # 0
          THEN /\ added' = [added EXCEPT !.pc = "cross", !.item = item]
               /\ xpost' = CrossPostItem("telegram", item.channelMessageId)
          ELSE /\ added' = [added EXCEPT !.pc = "save", !.item = item]
               /\ UNCHANGED xpost
  /\ UNCHANGED <<storeVars, syncVars, logVars, resolverVars, adapterVars>>
  /\ UNCHANGED <<dbdata, timers>>

\* crossPostContent settled (a rejection is caught and logged): the item is
\* pushed to the user object addItem holds and storage.writeDB() settles
\* with outcome o, writing the object that is db.data by now.
addItemSave ==
  /\ \/ added.pc = "save"
     \/ added.pc = "cross" /\ xpost.pc \in {"returned", "threw"}
  /\ LET item == IF added.pc = "cross" /\ xpost.pc = "returned"
                 THEN Assigned(added.item, xpost) ELSE added.item
         db == IF dbdata.replaced THEN dbdata.data ELSE data
         pushed == IF added.stale THEN db
                   ELSE [db EXCEPT !.users[AddedUser][AddedField] = Append(@, item)]
     IN \E o \in {"ok", "throw"} :
          /\ added' = [added EXCEPT !.pc = IF o = "ok" THEN "done" ELSE "failed",
                                    !.item = item]
          /\ file' = IF o = "ok" THEN pushed ELSE file
          /\ IF dbdata.replaced
             THEN /\ dbdata' = [dbdata EXCEPT !.data = pushed]
                  /\ UNCHANGED data
             ELSE /\ data' = pushed
                  /\ UNCHANGED dbdata
  /\ UNCHANGED <<syncVars, logVars, resolverVars, adapterVars>>
  /\ UNCHANGED <<xpost, timers>>

BotIdle ==
  /\ xpost = NoCrossPost
  /\ added = NotAdding
  /\ dbdata = Current
  /\ timers = IF syncInterval THEN 1 ELSE 0

-----------------------------------------------------------------------------
(* Specifications *)

LogIdle ==
  /\ captured = FALSE
  /\ previousState = NullData
  /\ logChannel = FALSE
  /\ sink = <<>>
  /\ wpc = [w \in OverlappingWriters |-> "idle"]
  /\ wchanges = [w \in OverlappingWriters |-> <<>>]
  /\ wsnap = [w \in OverlappingWriters |-> NullData]
  /\ wlog = [w \in OverlappingWriters |-> "none"]
  /\ edits = 0
  /\ diffed = FALSE
  /\ issued = <<>>
  /\ wtx = [w \in OverlappingWriters |-> NoTx]

SyncIdle ==
  /\ enabledPlatforms = <<"telegram">>
  /\ adapters = {"telegram"}
  /\ syncInProgress = FALSE
  /\ lastSyncTime = 0
  /\ pc = [c \in Callers |-> "idle"]
  /\ startTime = [c \in Callers |-> 0]
  /\ stats = [c \in Callers |-> ZeroStats]
  /\ cur = [c \in Callers |-> StartCursor]
  /\ loaded = [c \in Callers |-> NullData]
  /\ calls = [c \in Callers |-> <<>>]
  /\ outcome = [c \in Callers |-> "none"]
  /\ clock = 0
  /\ failBudget = MaxFailures
  /\ dropped = 0
  /\ syncInterval = FALSE

ResolverIdle ==
  /\ conflictResolution = "timestamp"
  /\ platformPriority = NoPriority
  /\ conflict = NoConflict
  /\ candidates = <<>>
  /\ winner = NotCalled

\* The sync service over a plain Storage.
Init == InitSync /\ LogIdle /\ ResolverIdle /\ AdapterIdle /\ BotIdle

Next == \E c \in Callers : Pass(c)

Spec == Init /\ [][Next]_vars

\* The timer keeps firing and every suspended call is resumed.
SpecLive == Init /\ [][Next]_vars /\ WF_vars(Next)

\* A StorageWithLog after construction, used by the bot's handlers.
LogStores == {EmptyStore, SnapshotA}

InitLog ==
  /\ SyncIdle!1 /\ SyncIdle!2 /\ SyncIdle!3 /\ SyncIdle!4 /\ SyncIdle!5 /\ SyncIdle!6
  /\ SyncIdle!7 /\ SyncIdle!8 /\ SyncIdle!9 /\ SyncIdle!10 /\ SyncIdle!11 /\ SyncIdle!12
  /\ failBudget = MaxLogFailures /\ SyncIdle!14 /\ SyncIdle!15
  /\ file \in LogStores
  /\ data = NullData
  /\ LogIdle!1 /\ LogIdle!2 /\ logChannel \in BOOLEAN /\ LogIdle!4 /\ LogIdle!5
  /\ LogIdle!6 /\ LogIdle!7 /\ LogIdle!8 /\ LogIdle!9 /\ LogIdle!10
  /\ LogIdle!11 /\ LogIdle!12
  /\ ResolverIdle
  /\ AdapterIdle
  /\ BotIdle

\* The handlers of the bot: any user is looked up; one user adds needs and
\* resources, and removes and bumps needs.
Client ==
  \/ initDB
  \/ \E u \in {"u1", "u2"} : getUserData(u)
  \/ \E u \in {"u1"} : \E t \in {"needs", "resources"} : addItem(u, t)
  \/ \E u \in {"u1"} : \E t \in {"needs"} : removeItem(u, t)
  \/ \E u \in {"u1"} : \E t \in {"needs"} : bumpItem(u, t)

WriteDB(w) ==
  \/ writeDBCall(w)
  \/ logSettles(w)
  \/ storeWriteSettles(w)
  \/ captureSettles(w)

NextLog == Client \/ \E w \in Writers : WriteDB(w)

SpecLog == InitLog /\ [][NextLog]_vars

\* The differ as a function of a pair of snapshots: previousState is either
\* null (nothing captured) or any snapshot, db.data is any snapshot.
DiffItem(g, desc, upd, msg) == Item(g, desc, upd, msg, FALSE, "none", NoPlatforms, "pending")

DiffVariants(g) ==
  {DiffItem(g, D1, 1, 101), DiffItem(g, D1, 2, 101),
   DiffItem(g, D2, 1, 101), DiffItem(g, D1, 2, 102)}

DiffNeeds ==
  {<<>>, <<DiffItem("g2", D1, 1, 101)>>}
    \cup {<<a>> : a \in DiffVariants("g1")}
    \cup {<<a, DiffItem("g2", D1, 1, 101)>> : a \in DiffVariants("g1")}

DiffResources == {<<>>} \cup {<<a>> : a \in DiffVariants("g3")}

DiffUsers ==
  LET first == {User(n, r) : n \in DiffNeeds, r \in DiffResources}
      second == {User(<<DiffItem("g4", D1, 1, 101)>>, <<>>)}
  IN {EmptyUsers}
       \cup {[u \in {"u1"} |-> x] : x \in first}
       \cup {[u \in {"u2"} |-> y] : y \in second}
       \cup {[u \in {"u1", "u2"} |-> IF u = "u1" THEN x ELSE y] : x \in first, y \in second}

DiffSnapshots == {Snapshot(us, NoConsensus) : us \in DiffUsers}

InitDiff ==
  /\ SyncIdle
  /\ file = NullData
  /\ data \in DiffSnapshots
  /\ captured \in BOOLEAN
  /\ previousState \in (IF captured THEN DiffSnapshots ELSE {NullData})
  /\ LogIdle!3 /\ LogIdle!4 /\ LogIdle!5 /\ LogIdle!6 /\ LogIdle!7 /\ LogIdle!8
  /\ LogIdle!9 /\ LogIdle!10 /\ LogIdle!11 /\ LogIdle!12
  /\ ResolverIdle
  /\ AdapterIdle
  /\ BotIdle

NextDiff == applyDetectChanges

SpecDiff == InitDiff /\ [][NextDiff]_vars

\* One writeDB of a StorageWithLog with a channel, as a function of the
\* captured snapshot and the in-memory snapshot it is called on. The texts
\* are descriptions around the truncation threshold, with and without markup
\* characters.
Plain(n) == [i \in 1..n |-> "a"]

WithCharAt(n, k, c) == [i \in 1..n |-> IF i = k THEN c ELSE "a"]

TextLengths == {0, 1, 2, TruncateOver + KeptChars} \cup ((KeptChars - 1)..(TruncateOver + 3))

MarkPositions(n) == {k \in {1, n} \cup ((KeptChars - 2)..(TruncateOver + 1)) : k \in 1..n}

Texts ==
  {Plain(n) : n \in TextLengths}
    \cup UNION {{WithCharAt(n, k, c) : k \in MarkPositions(n), c \in {"<", ">"}} :
                  n \in TextLengths}
    \cup {<<"<", "b", ">", "x", "<", "/", "b", ">">>}

OneNeed(desc) ==
  Snapshot([u \in {"u1"} |-> User(<<DiffItem("g1", desc, 1, 101)>>, <<>>)], NoConsensus)

NoNeed == Snapshot([u \in {"u1"} |-> User(<<>>, <<>>)], NoConsensus)

TextPairs ==
  UNION {{<<OneNeed(D1), OneNeed(t)>>, <<OneNeed(t), OneNeed(D1)>>,
          <<NoNeed, OneNeed(t)>>, <<OneNeed(t), NoNeed>>} : t \in Texts}

WritePairs ==
  TextPairs \cup {<<p, d>> : p \in {NoNeed, OneNeed(D1), SnapshotA}, d \in DiffSnapshots}

InitWrite ==
  /\ SyncIdle!1 /\ SyncIdle!2 /\ SyncIdle!3 /\ SyncIdle!4 /\ SyncIdle!5 /\ SyncIdle!6
  /\ SyncIdle!7 /\ SyncIdle!8 /\ SyncIdle!9 /\ SyncIdle!10 /\ SyncIdle!11 /\ SyncIdle!12
  /\ failBudget = MaxLogFailures /\ SyncIdle!14 /\ SyncIdle!15
  /\ captured = TRUE
  /\ logChannel = TRUE
  /\ \E pr \in WritePairs : previousState = pr[1] /\ file = pr[1] /\ data = pr[2]
  /\ LogIdle!4 /\ LogIdle!5 /\ LogIdle!6 /\ LogIdle!7 /\ LogIdle!8 /\ LogIdle!9
  /\ LogIdle!10 /\ LogIdle!11 /\ LogIdle!12
  /\ ResolverIdle
  /\ AdapterIdle
  /\ BotIdle

NextWrite == \E w \in Writers : WriteDB(w)

SpecWrite == InitWrite /\ [][NextWrite]_vars

\* The resolver as a function of the configuration and of the conflict
\* record it is called with; the same record may be handed in again.
ConflictOptions ==
  {"absent", "undefined", "timestamp", "platform_priority", "manual", "latest"}

PriorityOptions ==
  {NoPriority, Priority(<<"vk", "telegram">>), Priority(<<"telegram", "vk">>),
   Priority(<<"web">>), Priority(<<>>)}

CandidateGuids == <<"g1", "g2", "g3", "g4", "g5">>

CandidateLists(n) ==
  {[i \in 1..n |-> Candidate(CandidateGuids[i], t[i], o[i])] :
     t \in [1..n -> 1..MaxTime], o \in [1..n -> Platforms]}

\* The store the resolver works on: initialised with or without the
\* consensus metadata.
ConflictStores == {Snapshot(EmptyUsers, DefaultConsensus), Snapshot(EmptyUsers, NoConsensus)}

InitConflict ==
  /\ SyncIdle /\ file \in ConflictStores /\ data = file /\ LogIdle
  /\ \E option \in ConflictOptions : conflictResolution = ConfiguredPolicy(option)
  /\ platformPriority \in (IF conflictResolution = "platform_priority"
                           THEN PriorityOptions ELSE {NoPriority})
  /\ \E n \in 0..MaxCandidates : candidates \in CandidateLists(n)
  /\ conflict = [type |-> "duplicate", items |-> candidates]
  /\ winner = NotCalled
  /\ AdapterIdle
  /\ BotIdle

NextConflict == handleConflict

SpecConflict == InitConflict /\ [][NextConflict]_vars

\* Mutant of stop: the pass in flight is cancelled with the timer.
stopAndCancel ==
  /\ syncInterval' = FALSE
  /\ timers' = IF syncInterval THEN timers - 1 ELSE timers
  /\ syncInProgress' = FALSE
  /\ pc' = [c \in Callers |-> "idle"]
  /\ UNCHANGED <<enabledPlatforms, adapters, lastSyncTime, startTime, stats, cur,
                 loaded, calls, outcome, clock, dropped, failBudget>>
  /\ UNCHANGED <<storeVars, logVars, resolverVars, adapterVars, xpost, added, dbdata>>

\* stop(), lines 48-54: clearInterval and syncInterval = null when a timer is
\* set; nothing else is assigned.
stop ==
  /\ syncInterval' = FALSE
  /\ timers' = IF syncInterval THEN timers - 1 ELSE timers
  /\ UNCHANGED <<enabledPlatforms, adapters, syncInProgress, lastSyncTime, pc,
                 startTime, stats, cur, loaded, calls, outcome, clock, dropped,
                 failBudget>>
  /\ UNCHANGED <<storeVars, logVars, resolverVars, adapterVars, xpost, added, dbdata>>

\* A started service (timer set) that is stopped at any moment while the
\* timer calls syncPlatforms. A suspended call is resumed.
InitStop ==
  /\ InitSync
  /\ enabledPlatforms = <<"telegram", "vk">>
  /\ adapters = {"telegram", "vk"}
  /\ LogIdle
  /\ ResolverIdle
  /\ AdapterIdle
  /\ BotIdle

NextStop == stop \/ Pass("timer")

SpecStop == InitStop /\ [][NextStop]_vars /\ WF_vars(Pass("timer"))

\* Adapters over platforms holding any of the messages; messages are deleted,
\* again and again.
InitAdapter ==
  /\ SyncIdle
  /\ file = NullData /\ data = NullData
  /\ LogIdle
  /\ ResolverIdle
  /\ remote \in [AdapterVariants -> SUBSET MessageIds]
  /\ deleted = NoDelete
  /\ BotIdle

NextAdapter == \E a \in AdapterVariants : \E id \in MessageIds : deleteMessage(a, id)

SpecAdapter == InitAdapter /\ [][NextAdapter]_vars

\* The service under the manual policy over an initialised store: conflicts
\* are handed to the resolver while the timer and start() run sync passes.
QueuedConflict ==
  [type |-> "duplicate",
   items |-> <<Candidate("g1", 1, "telegram"), Candidate("g2", 2, "vk")>>]

InitQueue ==
  /\ enabledPlatforms = <<"telegram", "vk">>
  /\ adapters = {"telegram", "vk"}
  /\ file = SnapshotA
  /\ data = file
  /\ syncInProgress = FALSE
  /\ syncInterval = TRUE
  /\ lastSyncTime = 0
  /\ pc = [c \in Callers |-> "idle"]
  /\ startTime = [c \in Callers |-> 0]
  /\ stats = [c \in Callers |-> ZeroStats]
  /\ cur = [c \in Callers |-> StartCursor]
  /\ loaded = [c \in Callers |-> file]
  /\ calls = [c \in Callers |-> <<>>]
  /\ outcome = [c \in Callers |-> "none"]
  /\ clock = 0
  /\ failBudget = MaxFailures
  /\ dropped = 0
  /\ LogIdle
  /\ conflictResolution = "manual"
  /\ platformPriority = NoPriority
  /\ conflict = QueuedConflict
  /\ candidates = QueuedConflict.items
  /\ winner = NotCalled
  /\ AdapterIdle
  /\ BotIdle

NextQueue == handleConflict \/ Pass("timer")

SpecQueue == InitQueue /\ [][NextQueue]_vars

\* crossPostContent called, again and again, by any caller: over one to three
\* enabled platforms, with adapters for all of them or for the first ones
\* only, with any excluded platform or none, with and without an origin
\* message id.
CrossPostEnabled == {<<"telegram">>, <<"telegram", "vk">>, <<"telegram", "vk", "web">>}

CrossPostAdapters == {{"telegram"}, {"telegram", "vk"}, {"telegram", "vk", "web"}}

InitCrossPost ==
  /\ SyncIdle!3 /\ SyncIdle!4 /\ SyncIdle!5 /\ SyncIdle!6 /\ SyncIdle!7 /\ SyncIdle!8
  /\ SyncIdle!9 /\ SyncIdle!10 /\ SyncIdle!11 /\ SyncIdle!12 /\ SyncIdle!13
  /\ SyncIdle!14 /\ SyncIdle!15
  /\ enabledPlatforms \in CrossPostEnabled
  /\ adapters \in CrossPostAdapters
  /\ file = NullData /\ data = NullData
  /\ LogIdle
  /\ ResolverIdle
  /\ AdapterIdle
  /\ BotIdle

NextCrossPost ==
  \/ \E exclude \in Platforms \cup {"none"} : \E originMessageId \in {0, 100} :
       crossPostContent(exclude, originMessageId)
  \/ crossPostPlatform
  \/ crossPostReturn

SpecCrossPost == InitCrossPost /\ [][NextCrossPost]_vars

\* The bot with a sync service over three platforms: a user adds an entity
\* with addItem while the timer runs sync passes on the same store.
AddItemStore ==
  Snapshot([u \in {"u1"} |-> User(<<TrackedItem("g1", "telegram", OriginEntry)>>, <<>>)],
           DefaultConsensus)

InitAddItem ==
  /\ enabledPlatforms = <<"telegram", "vk", "web">>
  /\ adapters = {"telegram", "vk", "web"}
  /\ file = AddItemStore
  /\ data = file
  /\ loaded = [c \in Callers |-> file]
  /\ syncInterval = TRUE
  /\ SyncIdle!3 /\ SyncIdle!4 /\ SyncIdle!5 /\ SyncIdle!6 /\ SyncIdle!7 /\ SyncIdle!8
  /\ SyncIdle!10 /\ SyncIdle!11 /\ SyncIdle!12 /\ SyncIdle!13 /\ SyncIdle!14
  /\ LogIdle
  /\ ResolverIdle
  /\ AdapterIdle
  /\ BotIdle

addItemCall ==
  \/ addItemGetUserData
  \/ addItemPosted
  \/ crossPostPlatform
  \/ crossPostReturn
  \/ addItemSave

NextAddItem == addItemCall \/ Pass("timer")

SpecAddItem == InitAddItem /\ [][NextAddItem]_vars

MaxTimers == 2

\* start(), lines 29-33: the initial pass is awaited. Calls of start() made
\* while a pass is in progress are left out; a call is made once the
\* previous one has returned.
start ==
  /\ ~syncInProgress
  /\ outcome["start"] \in {"none", "started"}
  /\ syncPlatforms("start")

\* start(), lines 35-42: the initial pass has settled and the interval timer
\* is set; its handle is assigned to syncInterval, whatever that held.
startScheduled ==
  /\ pc["start"] = "idle"
  /\ Settlement(outcome["start"]) = "fulfilled"
  /\ timers < MaxTimers
  /\ syncInterval' = TRUE
  /\ timers' = timers + 1
  /\ outcome' = [outcome EXCEPT !["start"] = "started"]
  /\ UNCHANGED <<enabledPlatforms, adapters, syncInProgress, lastSyncTime, pc,
                 startTime, stats, cur, loaded, calls, clock, dropped, failBudget>>
  /\ UNCHANGED <<storeVars, logVars, resolverVars, adapterVars, xpost, added, dbdata>>

InitialSync ==
  \/ readDB("start")
  \/ syncItemBegin("start")
  \/ syncItemPlatform("start")
  \/ syncItemEnd("start")
  \/ writeDB("start")

\* A service that is constructed, then started and stopped in any order,
\* while the timers that are set call syncPlatforms.
InitTimer ==
  /\ enabledPlatforms = <<"telegram", "vk">>
  /\ adapters = {"telegram", "vk"}
  /\ file = AddItemStore
  /\ data = file
  /\ loaded = [c \in Callers |-> file]
  /\ SyncIdle!3 /\ SyncIdle!4 /\ SyncIdle!5 /\ SyncIdle!6 /\ SyncIdle!7 /\ SyncIdle!8
  /\ SyncIdle!10 /\ SyncIdle!11 /\ SyncIdle!12 /\ SyncIdle!13 /\ SyncIdle!14
  /\ SyncIdle!15
  /\ LogIdle
  /\ ResolverIdle
  /\ AdapterIdle
  /\ BotIdle

NextTimer == start \/ InitialSync \/ startScheduled \/ stop \/ Pass("timer")

SpecTimer == InitTimer /\ [][NextTimer]_vars

\* A StorageWithLog with a log channel whose in-memory snapshot holds one
\* change (a created, an updated or a deleted need); writeDB is called by
\* handlers that do not wait for one another.
OverlapPairs ==
  {<<NoNeed, OneNeed(D1)>>, <<OneNeed(D1), OneNeed(D2)>>, <<OneNeed(D1), NoNeed>>}

InitOverlap ==
  /\ SyncIdle!1 /\ SyncIdle!2 /\ SyncIdle!3 /\ SyncIdle!4 /\ SyncIdle!5 /\ SyncIdle!6
  /\ SyncIdle!7 /\ SyncIdle!8 /\ SyncIdle!9 /\ SyncIdle!10 /\ SyncIdle!11 /\ SyncIdle!12
  /\ failBudget = MaxLogFailures /\ SyncIdle!14 /\ SyncIdle!15
  /\ captured = TRUE
  /\ logChannel = TRUE
  /\ \E pr \in OverlapPairs : previousState = pr[1] /\ file = pr[1] /\ data = pr[2]
  /\ LogIdle!4 /\ LogIdle!5 /\ LogIdle!6 /\ LogIdle!7 /\ LogIdle!8 /\ LogIdle!9
  /\ LogIdle!10 /\ LogIdle!11 /\ LogIdle!12
  /\ ResolverIdle
  /\ AdapterIdle
  /\ BotIdle

NextOverlap == \E w \in OverlappingWriters : WriteDB(w)

SpecOverlap == InitOverlap /\ [][NextOverlap]_vars

-----------------------------------------------------------------------------
(* Vocabulary of the claims about the sync pass *)

Enabled == {enabledPlatforms[k] : k \in 1..Len(enabledPlatforms)}

\* The pass of caller c has walked the snapshot and ended, and no later pass
\* has started.
PassEnded(c) ==
  /\ pc[c] = "idle"
  /\ clock > 0
  /\ startTime[c] = clock
  /\ outcome[c] \in {"completed", "writeFailed"}

CallsFor(c, g, p) == {i \in 1..Len(calls[c]) : calls[c][i][1] = g /\ calls[c][i][2] = p}

OkCalls(c) == {i \in 1..Len(calls[c]) : calls[c][i][3] = "ok"}

FailedCalls(c) == {i \in 1..Len(calls[c]) : calls[c][i][3] # "ok"}

ItemByGuid(d, g) == CHOOSE it \in AllItems(d) : it.guid = g

\* The platforms an entity is to be propagated to: enabled, with an adapter,
\* other than its origin (the origin of an untracked entity is telegram).
Targets(item) == {p \in Enabled : p \in adapters /\ p # InitTracking(item).originPlatform}

HasEntry(item, p) == item.tracked /\ p \in DOMAIN item.platforms

NumEntities(d) ==
  LET n(u) == IF u \in DOMAIN d.users
              THEN Len(d.users[u].needs) + Len(d.users[u].resources) ELSE 0
  IN n("u1") + n("u2")

\* C1: a call of syncPlatforms made while a pass is in progress is dropped
\* with no side effects (no adapter call, no store read or write, nothing
\* queued, the flag stays set), so at most one pass executes at any moment.
C1_AtMostOnePass ==
  /\ [](Cardinality({c \in Callers : pc[c] # "idle"}) <= 1)
  /\ [][dropped' # dropped =>
          /\ syncInProgress /\ syncInProgress'
          /\ UNCHANGED <<file, data, pc, calls, stats, cur, lastSyncTime, clock,
                         outcome>>]_vars

C1_Witness ==
  /\ dropped > 0
  /\ \E c \in Callers : pc[c] = "walk" /\ Len(calls[c]) > 0

\* C2 (as claimed): after a pass, every entity has syncStatus synced iff its
\* platform map covers every enabled platform other than its origin, partial
\* iff it covers a non-empty strict subset, failed iff it covers none while
\* one exists and a post was attempted.
NonOrigin(item) == Enabled \ {InitTracking(item).originPlatform}

Covered(item) == {p \in NonOrigin(item) : HasEntry(item, p)}

Attempted(item) ==
  \E c \in Callers : \E i \in 1..Len(calls[c]) : calls[c][i][1] = item.guid

StatusFormula(item, attempted) ==
  /\ item.syncStatus = "synced" <=> Covered(item) = NonOrigin(item)
  /\ item.syncStatus = "partial" <=>
       (Covered(item) # {} /\ Covered(item) # NonOrigin(item))
  /\ item.syncStatus = "failed" <=>
       (Covered(item) = {} /\ NonOrigin(item) # {} /\ attempted)

C2_StatusMatchesCoverage ==
  \A c \in Callers :
    PassEnded(c) => \A it \in AllItems(data) : StatusFormula(it, Attempted(it))

\* C3 (as claimed): an entity with two target platforms and no entry yet is,
\* after one pass, synced with both entries when both posts succeeded, and
\* partial with the errors counter at exactly 1 when exactly one post failed
\* (and nothing else failed in the pass).
C3_EndToEnd ==
  \A c \in Callers :
    PassEnded(c) =>
      \A old \in AllItems(loaded[c]) :
        LET now == ItemByGuid(data, old.guid)
            bad == {i \in FailedCalls(c) : calls[c][i][1] = old.guid}
        IN (Cardinality(Targets(old)) = 2 /\ Covered(old) = {}
              /\ NonOrigin(old) = Targets(old)) =>
             /\ bad = {} =>
                  (now.syncStatus = "synced" /\ Covered(now) = Targets(old))
             /\ (Cardinality(bad) = 1 /\ FailedCalls(c) = bad) =>
                  (now.syncStatus = "partial" /\ stats[c].errors = 1)

\* C4 (as claimed): every failed postMessage of a pass increments the pass's
\* errors counter and leaves the platform entry absent.
C4_FailureCounted ==
  \A c \in Callers :
    PassEnded(c) =>
      /\ stats[c].errors = Cardinality(FailedCalls(c))
      /\ \A i \in FailedCalls(c) :
           ~HasEntry(ItemByGuid(data, calls[c][i][1]), calls[c][i][2])

\* C5 (as claimed): at the end of a pass the synced counter equals the number
\* of successful postMessage calls of the pass.
C5_SyncedCountsPosts ==
  \A c \in Callers : PassEnded(c) => stats[c].synced = Cardinality(OkCalls(c))

\* C5 (amended): at the end of a pass the synced counter equals the number of
\* entities with at least one successful post in the pass, and every
\* successful post has recorded {message id, syncedAt} in the platform map.
C5_SyncedCountsEntities ==
  \A c \in Callers :
    PassEnded(c) =>
      /\ stats[c].synced = Cardinality({calls[c][i][1] : i \in OkCalls(c)})
      /\ \A i \in OkCalls(c) :
           LET it == ItemByGuid(data, calls[c][i][1])
           IN /\ HasEntry(it, calls[c][i][2])
              /\ it.platforms[calls[c][i][2]] = PlatformEntry(NewMessageId, startTime[c])

C5_Witness ==
  \E c \in Callers :
    /\ PassEnded(c)
    /\ Cardinality(OkCalls(c)) = 2
    /\ Cardinality({calls[c][i][1] : i \in OkCalls(c)}) = 1

\* C6: next-pass-heals. A pass that has loaded the snapshot calls postMessage
\* exactly once for every target pair whose entry is missing from it and never
\* for a pair that has one, and a failed post leaves the entry missing from
\* the snapshot and the store, so the pair is posted again by every later
\* pass until a post succeeds; when failures stop and passes keep running,
\* every target pair eventually has its entry in the store.
Healed == \A it \in AllItems(file) : \A p \in Targets(it) : HasEntry(it, p)

RescansMissing(c) ==
  /\ \A old \in AllItems(loaded[c]) : \A p \in Targets(old) :
       Cardinality(CallsFor(c, old.guid, p)) = IF HasEntry(old, p) THEN 0 ELSE 1
  /\ \A i \in FailedCalls(c) :
       /\ ~HasEntry(ItemByGuid(data, calls[c][i][1]), calls[c][i][2])
       /\ ~HasEntry(ItemByGuid(file, calls[c][i][1]), calls[c][i][2])

C6_NextPassHeals ==
  /\ [](\A c \in Callers : PassEnded(c) => RescansMissing(c))
  /\ <>Healed

C6_Witness ==
  \E c \in Callers :
    /\ PassEnded(c)
    /\ clock > 1
    /\ FailedCalls(c) = {}
    /\ OkCalls(c) # {}
    /\ Healed
    /\ \E i \in OkCalls(c) :
         ~HasEntry(ItemByGuid(loaded[c], calls[c][i][1]), calls[c][i][2])
    /\ \E d \in Callers \ {c} : FailedCalls(d) # {}

\* C7: a failed post never aborts the pass: the pass keeps walking after it,
\* every entity of the loaded snapshot is counted in processed and has every
\* missing target attempted, and the pass goes on to set lastSync and write
\* the snapshot (which is then what the store holds unless the store write
\* itself rejected).
PassCompletes(c) ==
  /\ stats[c].processed = NumEntities(loaded[c])
  /\ \A old \in AllItems(loaded[c]) : \A p \in Targets(old) :
       HasEntry(old, p) \/ CallsFor(c, old.guid, p) # {}
  /\ data.consensus.lastSync = startTime[c]
  /\ lastSyncTime = startTime[c]
  /\ outcome[c] = "completed" => file = data

C7_FailureIsolated ==
  /\ [](\A c \in Callers : PassEnded(c) => PassCompletes(c))
  /\ [][\A c \in Callers :
          Len(calls'[c]) > Len(calls[c]) => (pc'[c] = "walk" /\ syncInProgress')]_vars
  /\ [](\A c \in Callers : (pc[c] = "idle" /\ calls[c] # <<>>) =>
                               outcome[c] \in {"completed", "writeFailed"})

C7_Witness ==
  \E c \in Callers :
    /\ PassEnded(c)
    /\ outcome[c] = "completed"
    /\ FailedCalls(c) # {}
    /\ \E i \in FailedCalls(c) : \E j \in OkCalls(c) : i < j
    /\ stats[c].processed = 2

-----------------------------------------------------------------------------
(* Vocabulary of the claims about StorageWithLog *)

EntityOf(t) == IF t = "needs" THEN "need" ELSE "resource"

Collections == {"needs", "resources"}

\* The records of a change list for entity guid g, by operation; a create or
\* update carries the guid in data, a delete in previousData.
EntityRecords(ch, op, g) ==
  {i \in 1..Len(ch) :
     /\ ch[i].operation = op
     /\ ch[i].entity \in {"need", "resource"}
     /\ (IF op = "delete" THEN ch[i].previousData.guid ELSE ch[i].data.guid) = g}

AllGuids(d) == {it.guid : it \in AllItems(d)}

\* C8: in StorageWithLog.writeDB with at least one detected change, the local
\* store write is performed whether the audit append succeeded, failed
\* (unconfirmed transaction) or threw: when the log call settles, in any of
\* its outcomes, storage.writeDB() is called with the in-memory snapshot, the
\* store and the snapshot are left as they were by the log call, and a store
\* write that succeeds puts that very snapshot in the store.
C8_LocalWriteProceeds ==
  /\ [][\A w \in Writers :
          (wpc[w] = "logging" /\ wpc'[w] # "logging") =>
            /\ wpc'[w] = "writing"
            /\ wlog'[w] \in LogOutcomes \cup {"local"}
            /\ wsnap'[w] = data
            /\ UNCHANGED <<file, data, previousState>>]_vars
  /\ [][\A w \in Writers :
          (wpc[w] = "writing" /\ wpc'[w] = "capturing") => file' = wsnap[w]]_vars
  /\ [](\A w \in Writers :
          /\ wpc[w] # "idle" => wchanges[w] # <<>>
          /\ wpc[w] = "capturing" => file = wsnap[w])

C8_Witness ==
  \E w \in Writers :
    /\ wpc[w] = "capturing"
    /\ wlog[w] \in {"fail", "throw"}
    /\ wchanges[w] # <<>>
    /\ file = wsnap[w]
    /\ file # previousState
    /\ sink = <<>>

\* C9: for all pairs of snapshots (S0, S1), the differ emits a create record
\* for every entity guid present only in S1 and a delete record for every
\* entity guid present only in S0, including the entities of a user that
\* exists in only one of the two snapshots.
C9_EveryGuidClassified ==
  (diffed /\ captured) =>
    \A w \in Writers :
      /\ \A g \in AllGuids(data) \ AllGuids(previousState) :
           EntityRecords(wchanges[w], "create", g) # {}
      /\ \A g \in AllGuids(previousState) \ AllGuids(data) :
           EntityRecords(wchanges[w], "delete", g) # {}

\* C10: for every guid present in both snapshots of the same user's
\* collection, the differ emits exactly one update record iff the two
\* entities differ in some field other than updatedAt; the record's data holds
\* the current guid, description and channelMessageId (and updatedAt), its
\* previousData the description and channelMessageId before the change.
UpdateRecords(ch, u, t, g) ==
  {i \in 1..Len(ch) :
     /\ ch[i].operation = "update"
     /\ ch[i].entity = EntityOf(t)
     /\ ch[i].userId = u
     /\ ch[i].data.guid = g}

DiffersOutsideUpdatedAt(currentItem, previousItem) ==
  \E f \in DOMAIN currentItem \ {"updatedAt"} : currentItem[f] # previousItem[f]

C10_UpdateIffDiffers ==
  (diffed /\ captured) =>
    \A w \in Writers :
      \A u \in DOMAIN data.users \cap DOMAIN previousState.users :
        \A t \in Collections :
          \A g \in Guids(data.users[u][t]) \cap Guids(previousState.users[u][t]) :
            LET ch == wchanges[w]
                currentItem == Lookup(data.users[u][t], g)
                previousItem == Lookup(previousState.users[u][t], g)
                recs == UpdateRecords(ch, u, t, g)
            IN IF DiffersOutsideUpdatedAt(currentItem, previousItem)
               THEN /\ Cardinality(recs) = 1
                    /\ \A i \in recs :
                         /\ ch[i].data.guid = currentItem.guid
                         /\ ch[i].data.description = currentItem.description
                         /\ ch[i].data.channelMessageId = currentItem.channelMessageId
                         /\ ch[i].data.time = currentItem.updatedAt
                         /\ ch[i].previousData.description = previousItem.description
                         /\ ch[i].previousData.channelMessageId = previousItem.channelMessageId
               ELSE recs = {}

C10_Witness ==
  /\ diffed
  /\ captured
  /\ "u1" \in DOMAIN data.users \cap DOMAIN previousState.users
  /\ \E w \in Writers :
       /\ \E i \in UpdateRecords(wchanges[w], "u1", "needs", "g1") :
            /\ wchanges[w][i].data.description = D2
            /\ wchanges[w][i].previousData.description = D1
       /\ "g3" \in Guids(data.users["u1"].resources)
                     \cap Guids(previousState.users["u1"].resources)
       /\ Lookup(data.users["u1"].resources, "g3").updatedAt
            # Lookup(previousState.users["u1"].resources, "g3").updatedAt
       /\ UpdateRecords(wchanges[w], "u1", "resources", "g3") = {}

\* A call of writeDB returned in this step without logging or writing.
Skips(w) == wpc[w] = "idle" /\ wlog[w] # "skipped" /\ wlog'[w] = "skipped"

\* captureState of a writeDB succeeded in this step (no failure was spent).
Recaptures(w) == wpc[w] = "capturing" /\ wpc'[w] = "idle" /\ failBudget' = failBudget

\* C11: diff idempotence. Diffing a snapshot against itself yields an empty
\* list; so in the state a completed writeDB (log, write, recapture) leaves,
\* the differ finds nothing, and a writeDB called while the differ finds
\* nothing returns at once: no transaction id is drawn, nothing is appended
\* to the sink, the store is not written (a step of an idle writer that does
\* any of these is one where the differ found a change).
C11_DiffIdempotent ==
  /\ [](\A snapshot \in {data, file, previousState} :
          detectChanges(TRUE, snapshot, snapshot) = <<>>)
  /\ [][\A w \in Writers :
          Recaptures(w) => detectChanges(captured', previousState', data') = <<>>]_vars
  /\ [][\A w \in Writers :
          \/ /\ wpc'[w] = "idle"
             /\ UNCHANGED <<sink, issued, file>>
             /\ wlog'[w] = "skipped" => (wlog[w] = "skipped" \/ Skips(w))
          \/ wpc[w] # "idle"
          \/ detectChanges(captured, previousState, data) # <<>>]_vars

C11_Witness ==
  \E w \in Writers :
    /\ wpc[w] = "idle"
    /\ wlog[w] = "skipped"
    /\ Len(sink) = 1
    /\ captured
    /\ data = previousState
    /\ previousState = file
    /\ \E it \in AllItems(file) : it.guid = NewGuids[1]

\* C12: two snapshots whose entities are identical except for updatedAt
\* produce no change record, and a writeDB over them appends nothing to the
\* audit log (it returns without a log call).
SameItemsButUpdatedAt(xs, ys) ==
  /\ Len(xs) = Len(ys)
  /\ \A i \in 1..Len(xs) : [xs[i] EXCEPT !.updatedAt = 0] = [ys[i] EXCEPT !.updatedAt = 0]

SameButUpdatedAt(a, b) ==
  /\ DOMAIN a.users = DOMAIN b.users
  /\ \A u \in DOMAIN a.users :
       \A t \in Collections : SameItemsButUpdatedAt(a.users[u][t], b.users[u][t])

C12_VolatileOnlyIsSilent ==
  /\ []((captured /\ SameButUpdatedAt(previousState, data)) =>
          /\ detectChanges(captured, previousState, data) = <<>>
          /\ \A w \in Writers : wchanges[w] = <<>>)
  /\ [][\A w \in Writers :
          (wpc[w] = "idle" /\ captured /\ SameButUpdatedAt(previousState, data)) =>
            /\ wpc'[w] = "idle"
            /\ UNCHANGED <<sink, issued>>
            /\ wlog'[w] = "skipped" => (wlog[w] = "skipped" \/ Skips(w))]_vars

C12_Witness ==
  \E w \in Writers :
    /\ captured
    /\ data # previousState
    /\ AllItems(data) # {}
    /\ SameButUpdatedAt(previousState, data)
    /\ wlog[w] = "skipped"
    /\ wchanges[w] = <<>>
    /\ sink = <<>>

\* The log call of writer w settles in this step.
LogReturns(w) == wpc[w] = "logging" /\ wpc'[w] # "logging"

\* C13: logChange and logBatchChanges never throw on a sink error and always
\* return a transaction with the txId drawn at the call: with no sink
\* configured it is confirmed, has no message id and nothing is sent; when the
\* append succeeds it is confirmed, carries the sink's message id and exactly
\* one message was sent; when the append fails it is unconfirmed, has no
\* message id and has its error set, and nothing is in the sink.
C13_LogNeverThrows ==
  [][\A w \in Writers :
       LogReturns(w) =>
         LET tx == wtx'[w]
         IN /\ tx.txId = wtx[w].txId
            /\ tx.txId > 0
            /\ tx.event \in {"none", "ok", "reject"} => ~tx.threw
            /\ tx.event = "none" =>
                 (~logChannel /\ tx.confirmed /\ tx.messageId = 0 /\ ~tx.error
                    /\ sink' = sink)
            /\ tx.event = "ok" =>
                 (logChannel /\ tx.confirmed /\ ~tx.error
                    /\ Len(sink') = Len(sink) + 1
                    /\ SubSeq(sink', 1, Len(sink)) = sink
                    /\ tx.messageId = Len(sink'))
            /\ tx.event = "reject" =>
                 (logChannel /\ ~tx.confirmed /\ tx.messageId = 0 /\ tx.error
                    /\ sink' = sink)]_vars

C13_Witness ==
  \E w \in Writers :
    /\ wpc[w] = "writing"
    /\ logChannel
    /\ wtx[w].event = "reject"
    /\ ~wtx[w].confirmed
    /\ wtx[w].error
    /\ wtx[w].txId = 2
    /\ Len(sink) = 1

\* C14: the audit channel is append-only: every step leaves the messages
\* already in the sink where and as they were (the sink before the step is a
\* prefix of the sink after it), whatever writeDB, logChange and
\* logBatchChanges calls are made and however they end.
C14_AppendOnly ==
  [][/\ Len(sink') >= Len(sink)
     /\ SubSeq(sink', 1, Len(sink)) = sink]_vars

C14_Witness ==
  /\ Len(sink) = 2
  /\ sink[1] # sink[2]
  /\ failBudget = 0
  /\ \E w \in Writers : wpc[w] = "idle"

\* A log call is made by writer w in this step.
LogCalled(w) == wpc[w] = "idle" /\ wpc'[w] = "logging"

\* C15: the transaction ids returned by successive logChange and
\* logBatchChanges calls are pairwise distinct and strictly increasing in
\* call order, whether or not the delivery succeeded: every call draws one
\* new id, later than all ids drawn before, and returns that id however the
\* call ends.
C15_TxIdsIncrease ==
  /\ [](\A i, j \in 1..Len(issued) : i < j => issued[i] < issued[j])
  /\ [][\A w \in Writers :
          /\ LogCalled(w) =>
               /\ Len(issued') = Len(issued) + 1
               /\ SubSeq(issued', 1, Len(issued)) = issued
               /\ wtx'[w].txId = issued'[Len(issued')]
               /\ \A i \in 1..Len(issued) : issued[i] < wtx'[w].txId
          /\ LogReturns(w) => (wtx'[w].txId = wtx[w].txId /\ issued' = issued)
          /\ (~LogCalled(w)) => issued' = issued]_vars

C15_Witness ==
  \E w \in Writers :
    /\ wpc[w] = "writing"
    /\ Len(issued) = 2
    /\ wtx[w].txId = issued[2]
    /\ wtx[w].confirmed
    /\ Len(sink) = 1
    /\ failBudget = 0

-----------------------------------------------------------------------------
(* Vocabulary of the claims about the encoding *)

\* The log call of writer w delivers its message in this step.
Delivers(w) == LogReturns(w) /\ wtx'[w].event = "ok" /\ Len(sink') = Len(sink) + 1

\* The lines of a message that render a description.
DescriptionLines(m) ==
  SelectSeq(m, LAMBDA ln : Len(ln) = 4 /\ ln[2] = Lit("description"))

\* The descriptions a single change carries into its message: that of data,
\* and for an update that of previousData.
Descriptions(ch) ==
  (IF ch.data.kind = "item" THEN <<ch.data.description>> ELSE <<>>)
    \o (IF ch.operation = "update" /\ ch.previousData.kind = "item"
        THEN <<ch.previousData.description>> ELSE <<>>)

\* The text an HTML renderer shows for a sequence of characters: each "&lt;"
\* is one "<" and each "&gt;" one ">".
EntityAt(cs, i) ==
  /\ i + 3 <= Len(cs)
  /\ SubSeq(cs, i, i + 3) \in {<<"&", "l", "t", ";">>, <<"&", "g", "t", ";">>}

Shown(cs) ==
  LET entities == {i \in 1..Len(cs) : EntityAt(cs, i)}
      before(i) == Cardinality({e \in entities : e < i})
      kept == {i \in 1..Len(cs) : \A e \in entities : i \notin (e + 1)..(e + 3)}
  IN [k \in 1..(Len(cs) - 3 * Cardinality(entities)) |->
        LET i == CHOOSE i \in kept : i - 3 * before(i) = k
        IN IF i \in entities THEN (IF cs[i + 1] = "l" THEN "<" ELSE ">") ELSE cs[i]]

Brackets(cs) == {i \in 1..Len(cs) : cs[i] \in {"<", ">"}}

\* C16: in the single-change encoding a string value longer than 100
\* characters is rendered as its first 97 characters followed by "..." and a
\* value of at most 100 characters in full, the truncation being applied
\* before the escaping: what the rendering shows is exactly that text, however
\* many characters the escaping adds.
C16_TruncatedTo97 ==
  [][\A w \in Writers :
       (Delivers(w) /\ Len(wchanges[w]) = 1) =>
         LET values == Descriptions(wchanges[w][1])
             shown == DescriptionLines(sink'[Len(sink')])
         IN /\ Len(shown) = Len(values)
            /\ \A i \in 1..Len(values) :
                 /\ shown[i][4].kind = "str"
                 /\ Shown(shown[i][4].chars) =
                      IF Len(values[i]) > 100
                      THEN SubSeq(values[i], 1, 97) \o <<".", ".", ".">>
                      ELSE values[i]]_vars

C16_Witness ==
  \E w \in Writers :
    /\ wpc[w] = "writing"
    /\ wtx[w].sent = 1
    /\ Len(wchanges[w]) = 1
    /\ wchanges[w][1].operation = "create"
    /\ Len(wchanges[w][1].data.description) = 101
    /\ wchanges[w][1].data.description[97] = "<"
    /\ Len(DescriptionLines(sink[Len(sink)])[1][4].chars) = 103

\* C17: no text taken from a change record appears in an encoded message with
\* a raw "<" or ">": a rendered string value holds neither, each bracket of
\* the kept text having become one "&lt;" or "&gt;", and what is copied as it
\* is (operation, entity, user id, guid) is one of the names the differ
\* writes, for single and batch messages alike.
CopiedNames(ch) ==
  {ch.operation, ch.entity, ch.userId}
    \cup (IF ch.data.kind = "item" THEN {ch.data.guid} ELSE {})

MarkupFree(name) ==
  name \in {"create", "update", "delete", "user", "need", "resource"}
             \cup {UserOrder[i] : i \in 1..Len(UserOrder)}
             \cup {"g1", "g2", "g3", "g4"}

Occurrences(cs, word) ==
  Cardinality({j \in 1..(Len(cs) - Len(word) + 1) : SubSeq(cs, j, j + Len(word) - 1) = word})

\* The part of a text that the encoding keeps (C16).
Kept(value) == IF Len(value) > 100 THEN SubSeq(value, 1, 97) ELSE value

C17_NoRawMarkup ==
  /\ [](\A k \in 1..Len(sink) : \A l \in 1..Len(sink[k]) :
          \A t \in 1..Len(sink[k][l]) :
            LET token == sink[k][l][t]
            IN /\ token.kind = "str" => Brackets(token.chars) = {}
               /\ token.kind = "id" => MarkupFree(token.text))
  /\ [][\A w \in Writers :
          Delivers(w) =>
            /\ \A i \in 1..Len(wchanges[w]) :
                 \A name \in CopiedNames(wchanges[w][i]) : MarkupFree(name)
            /\ Len(wchanges[w]) = 1 =>
                 LET values == Descriptions(wchanges[w][1])
                     shown == DescriptionLines(sink'[Len(sink')])
                 IN \A i \in 1..Len(values) :
                      /\ Occurrences(shown[i][4].chars, <<"&", "l", "t", ";">>)
                           = Occurrences(Kept(values[i]), <<"<">>)
                      /\ Occurrences(shown[i][4].chars, <<"&", "g", "t", ";">>)
                           = Occurrences(Kept(values[i]), <<">">>)]_vars

C17_Witness ==
  \E w \in Writers :
    /\ wpc[w] = "writing"
    /\ wtx[w].sent = 1
    /\ Len(wchanges[w]) = 1
    /\ wchanges[w][1].operation = "update"
    /\ wchanges[w][1].data.description = <<"<", "b", ">", "x", "<", "/", "b", ">">>
    /\ Len(DescriptionLines(sink[Len(sink)])[1][4].chars) = 20

\* C18: a batch transaction of N changes is encoded as one message: a header
\* with the txId, the timestamp line, a count line stating N, a blank line,
\* then exactly N summary lines numbered 1..N in input order, of the form
\* "i. <operation> <entity> (user: <id>)", with none of the changes' data or
\* previousData.
C18_BatchEncoding ==
  [][\A w \in Writers :
       (Delivers(w) /\ Len(wchanges[w]) > 1) =>
         LET n == Len(wchanges[w])
             m == sink'[Len(sink')]
         IN /\ Len(m) = n + 4
            /\ m[1] = <<Lit("<b>Batch Transaction: "), Num(wtx'[w].txId), Lit("</b>")>>
            /\ Len(m[2]) = 3 /\ m[2][1] = Lit("<code>") /\ m[2][2].kind = "time"
            /\ m[2][3] = Lit("</code>")
            /\ m[3] = <<Lit("<i>"), Num(n), Lit(" changes</i>")>>
            /\ m[4] = <<>>
            /\ \A i \in 1..n :
                 m[4 + i] = <<Num(i), Lit(". "), Id(wchanges[w][i].operation), Lit(" "),
                              Id(wchanges[w][i].entity), Lit(" (user: "),
                              Id(wchanges[w][i].userId), Lit(")")>>
            /\ \A l \in 1..Len(m) : \A t \in 1..Len(m[l]) : m[l][t].kind # "str"]_vars

C18_Witness ==
  \E w \in Writers :
    /\ wpc[w] = "writing"
    /\ wtx[w].sent = 1
    /\ Len(wchanges[w]) = 3
    /\ Len(sink[Len(sink)]) = 7
    /\ \E i \in 1..3 : wchanges[w][i].data.kind = "item"
    /\ \E i \in 1..3 : wchanges[w][i].operation = "delete"

-----------------------------------------------------------------------------
(* Vocabulary of the claims about the conflict resolver *)

\* handleConflict has returned for the conflict record handed in.
Handled == winner # NotCalled

CandidateSet == {candidates[i] : i \in 1..Len(candidates)}

Latest == {c \in CandidateSet : \A d \in CandidateSet : d.updatedAt <= c.updatedAt}

\* The positions of the configured priority list that some candidate matches.
MatchedEntries ==
  {k \in 1..Len(platformPriority.list) :
     \E c \in CandidateSet : c.originPlatform = platformPriority.list[k]}

\* C19: under the timestamp policy, which is also the policy used when none
\* or an unknown one is configured, handleConflict on a non-empty candidate
\* list returns a candidate whose updatedAt is maximal among all candidates;
\* of two candidates with updatedAt T1 < T2 it returns the T2 candidate.
C19_TimestampPicksLatest ==
  (Handled /\ conflictResolution \notin {"platform_priority", "manual"}
     /\ candidates # <<>>) =>
    /\ winner.kind = "item"
    /\ winner.item \in Latest
    /\ Len(candidates) = 2 =>
         /\ candidates[1].updatedAt < candidates[2].updatedAt =>
              winner.item = candidates[2]
         /\ candidates[2].updatedAt < candidates[1].updatedAt =>
              winner.item = candidates[1]

C19_Witness ==
  /\ Handled
  /\ conflictResolution = "latest"
  /\ Len(candidates) = 3
  /\ candidates[1].updatedAt = 1
  /\ candidates[2].updatedAt = 3
  /\ candidates[3].updatedAt = 2
  /\ winner.item = candidates[2]

\* C20: under the platform_priority policy handleConflict returns the
\* candidate whose originPlatform is the earliest entry of the configured
\* priority list that any candidate matches, whatever the timestamps; when no
\* candidate's originPlatform is in the list it returns what the timestamp
\* policy returns.
C20_PriorityPicksEarliestListed ==
  (Handled /\ conflictResolution = "platform_priority" /\ platformPriority.configured) =>
    IF MatchedEntries # {}
    THEN /\ winner.kind = "item"
         /\ winner.item \in CandidateSet
         /\ \E k \in MatchedEntries :
              /\ \A l \in MatchedEntries : k <= l
              /\ winner.item.originPlatform = platformPriority.list[k]
    ELSE winner = resolveByTimestamp([type |-> "duplicate", items |-> candidates]).winner

C20_Witness ==
  /\ Handled
  /\ conflictResolution = "platform_priority"
  /\ platformPriority = Priority(<<"vk", "telegram">>)
  /\ Len(candidates) = 3
  /\ candidates[1].originPlatform = "telegram" /\ candidates[1].updatedAt = 3
  /\ candidates[2].originPlatform = "web" /\ candidates[2].updatedAt = 2
  /\ candidates[3].originPlatform = "vk" /\ candidates[3].updatedAt = 1
  /\ winner.item = candidates[3]

\* The fallback of C20: no candidate is of a listed platform.
C20_FallbackWitness ==
  /\ Handled
  /\ conflictResolution = "platform_priority"
  /\ platformPriority = Priority(<<"web">>)
  /\ Len(candidates) = 2
  /\ candidates[1].originPlatform = "telegram" /\ candidates[1].updatedAt = 1
  /\ candidates[2].originPlatform = "vk" /\ candidates[2].updatedAt = 2
  /\ winner.item = candidates[2]

\* A sequence is an initial part of another.
IsPrefix(a, b) == Len(a) <= Len(b) /\ SubSeq(b, 1, Len(a)) = a

Queue == data.consensus.conflicts

\* C21: under the manual policy handleConflict selects no winner (returns
\* null) and appends exactly one record with status pending for the conflict
\* to the stored conflicts queue; the queue only grows: no operation of the
\* service removes a record or marks it resolved.
C21_ManualQueueOnlyGrows ==
  /\ [][(conflictResolution = "manual" /\ winner' # winner) =>
          /\ winner' = Null
          /\ Len(Queue') = Len(Queue) + 1
          /\ Queue'[Len(Queue')].status = "pending"
          /\ Queue'[Len(Queue')].data = conflict]_vars
  /\ [][IsPrefix(Queue, Queue')]_vars

\* The queue after a conflict was recorded and a pass then reloaded the store.
C21_QueueEmptied ==
  /\ conflictResolution = "manual"
  /\ winner = Null
  /\ Queue = <<>>
  /\ pc["timer"] = "walk"

\* C22: when the store's read or write fails during a sync pass, the pass is
\* aborted and the call of syncPlatforms surfaces the error to its caller: the
\* call does not settle as a call that succeeded does.
C22_StoreFailureSurfaced ==
  \A c \in Callers :
    outcome[c] \in {"readFailed", "writeFailed"} =>
      /\ pc[c] = "idle"
      /\ Settlement(outcome[c]) = "rejected"

\* A step of stop() that finds the timer set.
Stops == syncInterval /\ ~syncInterval'

\* The pass of caller c has ended after walking every entity, lastSync was
\* set to its start time and, when the write succeeded, persisted.
RanToCompletion(c) ==
  /\ pc[c] = "idle"
  /\ ~syncInProgress
  /\ outcome[c] \in {"completed", "writeFailed"}
  /\ cur[c].pos > Len(Positions(data))
  /\ stats[c].processed = Len(Positions(data))
  /\ lastSyncTime = startTime[c]
  /\ outcome[c] = "completed" => file.consensus.lastSync = startTime[c]

\* C23: stop() only clears the timer: it changes neither the in-progress flag
\* nor the position of a pass in flight, and a pass that is walking the
\* entities when the timer is cleared still processes the remaining entities,
\* sets lastSync, writes the snapshot and returns to idle.
C23_StopLeavesPassRunning ==
  /\ [][Stops => UNCHANGED <<storeVars, syncInProgress, pc, cur, stats, calls,
                             outcome, lastSyncTime>>]_vars
  /\ \A c \in Callers :
       (~syncInterval /\ pc[c] = "walk") ~> RanToCompletion(c)

\* The timer was cleared while the timer's pass is part-way through the
\* entities (a timer pass can only have begun while the timer was set).
C23_Witness ==
  /\ ~syncInterval
  /\ syncInProgress
  /\ pc["timer"] = "walk"
  /\ cur["timer"].pos > 1
  /\ cur["timer"].pos <= Len(Positions(data))

\* C24: for every write that carries changes the local write precedes the
\* audit append: when an entry is appended to the public log, the snapshot
\* that carries the logged changes is already saved in the local store.
C24_LocalWriteFirst ==
  [][Len(sink') > Len(sink) => file = data]_vars

\* C25: for every adapter variant, deleteMessage on a message that is already
\* absent on the platform reports success (true), unless the platform call
\* failed for another reason than the absence of the message.
C25_DeleteAbsentSucceeds ==
  (deleted.adapter # "" /\ deleted.absent /\ deleted.answer \notin {"error", "denied"})
    => deleted.result

-----------------------------------------------------------------------------
(* Vocabulary of the claim about replaying the log *)

GuidLines(m) == SelectSeq(m, LAMBDA ln : Len(ln) = 4 /\ ln[2] = Lit("guid"))

\* What a reader of one message learns: a single-change block of a create or
\* an update names the entity's guid and shows its description; a block of a
\* delete removes the entity it names; a batch message names no entity.
ReplayOne(known, m) ==
  IF m[1][1] # Lit("<b>Transaction: ") \/ GuidLines(m) = <<>> THEN known
  ELSE LET g == GuidLines(m)[1][4].text
           others == {e \in known : e[1] # g}
       IN IF m[5][2].text = "delete" THEN others
          ELSE others \cup {<<g, Shown(DescriptionLines(m)[1][4].chars)>>}

RECURSIVE Replay(_)
Replay(channel) ==
  IF channel = <<>> THEN {}
  ELSE ReplayOne(Replay(SubSeq(channel, 1, Len(channel) - 1)), channel[Len(channel)])

\* The entities a snapshot holds: guid and description.
Held(d) == {<<it.guid, it.description>> : it \in AllItems(d)}

\* Every write has completed, none failed, and the store holds only entities
\* the handlers created through writeDB.
Settled ==
  /\ logChannel /\ captured
  /\ failBudget = MaxLogFailures
  /\ \A w \in Writers : wpc[w] = "idle"
  /\ file = data
  /\ detectChanges(captured, previousState, data) = <<>>
  /\ \A it \in AllItems(file) : \E i \in 1..Len(NewGuids) : it.guid = NewGuids[i]

\* C26: with a log channel configured and the sink always succeeding, replaying
\* the appended entries yields exactly the entity guids, with their
\* descriptions, that the local store holds once every write has completed.
C26_ReplayYieldsStore == Settled => Replay(sink) = Held(file)

\* C27: a sync pass never calls postMessage for an entity on its origin
\* platform, nor on a platform for which the entity's platform map had an
\* entry when the pass loaded it; within one pass each entity/platform pair
\* receives at most one postMessage call.
C27_PostsOnlyWhereMissing ==
  \A c \in Callers : \A i \in 1..Len(calls[c]) :
    LET g == calls[c][i][1]
        p == calls[c][i][2]
        old == ItemByGuid(loaded[c], g)
    IN /\ p # InitTracking(old).originPlatform
       /\ ~HasEntry(old, p)
       /\ CallsFor(c, g, p) = {i}

\* A later pass has ended in which an entity that already had an entry for
\* one target platform was posted to another one only.
C27_Witness ==
  \E c \in Callers :
    /\ PassEnded(c)
    /\ clock > 1
    /\ \E old \in AllItems(loaded[c]) : \E p, q \in Targets(old) :
         /\ HasEntry(old, p)
         /\ CallsFor(c, old.guid, p) = {}
         /\ CallsFor(c, old.guid, q) # {}

\* The call of caller c settles in this step.
Settles(c) == pc[c] # "idle" /\ pc'[c] = "idle"

\* C28: every pass that starts eventually returns to idle: the in-progress
\* flag is false once the syncPlatforms call has settled, also when the store
\* read, the store write or an adapter threw during the pass.
C28_PassReturnsToIdle ==
  /\ [][\A c \in Callers : Settles(c) => ~syncInProgress']_vars
  /\ [](syncInProgress => \E c \in Callers : pc[c] # "idle")
  /\ \A c \in Callers : (pc[c] # "idle") ~> (pc[c] = "idle" /\ ~syncInProgress)

\* Passes have ended idle after a rejected read, and after an adapter threw
\* and the final write was rejected.
C28_Witness ==
  /\ ~syncInProgress
  /\ pc["timer"] = "idle"
  /\ outcome["timer"] = "writeFailed"
  /\ \E i \in 1..Len(calls["timer"]) : calls["timer"][i][3] = "throw"

C28_ReadFailedWitness ==
  /\ ~syncInProgress
  /\ pc["timer"] = "idle"
  /\ outcome["timer"] = "readFailed"

\* The log call of writer w put a message to the sink in this step (the
\* sendMessage call was made: it resolved or it rejected).
Attempts(w) == LogReturns(w) /\ wtx'[w].event \in {"ok", "reject"}

\* The statement of C29 as it stands: every writeDB that detected a change
\* makes an append attempt.
C29_AlwaysOneAttempt ==
  [][\A w \in Writers : LogReturns(w) => Attempts(w)]_vars

\* C29 (amended): a writeDB that detects at least one change makes exactly one
\* log call covering all detected changes, and that call makes at most one
\* append attempt: exactly one when a log channel is configured and the entry
\* was built, none without a channel. A delivered entry is the full
\* single-change block when one change was detected and a batch transaction
\* stating their number when two or more were; no step outside a log call
\* touches the sink.
C29_OneAttemptWhenChannel ==
  [][\A w \in Writers :
       /\ LogCalled(w) =>
            /\ Len(wchanges'[w]) >= 1
            /\ wchanges'[w] = detectChanges(captured, previousState, data)
       /\ LogReturns(w) =>
            /\ wtx'[w].event # "crash" => (Attempts(w) <=> logChannel)
            /\ Len(sink') - Len(sink) = (IF wtx'[w].event = "ok" THEN 1 ELSE 0)
            /\ SubSeq(sink', 1, Len(sink)) = sink
            /\ wtx'[w].event = "ok" =>
                 LET entry == sink'[Len(sink')]
                     n == Len(wchanges[w])
                 IN IF n = 1
                    THEN /\ entry[1][1] = Lit("<b>Transaction: ")
                         /\ entry[4] = <<Lit("(change:")>>
                         /\ entry[5][2] = Id(wchanges[w][1].operation)
                         /\ entry[7][2] = Id(wchanges[w][1].userId)
                    ELSE /\ entry[1][1] = Lit("<b>Batch Transaction: ")
                         /\ entry[3][2] = Num(n)
                         /\ Len(entry) = 4 + n
       /\ (~LogReturns(w)) => sink' = sink]_vars

\* A batch of several changes was delivered by the one log call of a write.
C29_Witness ==
  \E w \in Writers :
    /\ logChannel
    /\ wpc[w] = "writing"
    /\ wtx[w].event = "ok"
    /\ Len(wchanges[w]) >= 2
    /\ Len(sink) = 1
    /\ sink[1][1][1] = Lit("<b>Batch Transaction: ")

\* Without a channel the log call returned and nothing was put to the sink.
C29_NoChannelWitness ==
  \E w \in Writers :
    /\ ~logChannel
    /\ wpc[w] = "writing"
    /\ wtx[w].event = "none"
    /\ Len(wchanges[w]) >= 1
    /\ sink = <<>>

\* The local store write of writer w is rejected in this step.
StoreWriteFails(w) == wpc[w] = "writing" /\ wpc'[w] # "writing" /\ failBudget' < failBudget

\* C30: when the local store write fails inside writeDB, the call ends there
\* with the error (captureState is not run), the store and the previous
\* snapshot used for diffing are left as they were, and the differ finds the
\* same changes again for the next writeDB.
C30_WriteFailurePropagates ==
  [][\A w \in Writers :
       StoreWriteFails(w) =>
         /\ wpc'[w] = "idle"
         /\ UNCHANGED <<file, data, captured, previousState, sink>>
         /\ wchanges[w] # <<>>
         /\ detectChanges(captured', previousState', data') = wchanges[w]]_vars

\* After a rejected store write (the entry was delivered, the store still
\* holds the previous snapshot) writeDB was called again and detected changes.
C30_Witness ==
  \E w \in Writers :
    /\ wpc[w] = "logging"
    /\ Len(issued) = 2
    /\ Len(sink) = 1
    /\ failBudget < MaxLogFailures
    /\ file = previousState
    /\ wchanges[w] = detectChanges(captured, previousState, data)
    /\ wchanges[w] # <<>>

-----------------------------------------------------------------------------
(* Vocabulary of the claims about the order of the candidates *)

\* The rearrangements of a list.
Rearrangements(list) ==
  {[i \in 1..Len(list) |-> list[f[i]]] :
     f \in {g \in [1..Len(list) -> 1..Len(list)] :
              \A i, j \in 1..Len(list) : g[i] = g[j] => i = j}}

\* C39: under the timestamp policy the winner does not depend on the order of
\* the candidate list: for every permutation of the candidates handed in,
\* candidates with equal updatedAt included, the resolver returns the same
\* candidate as the call did.
C39_WinnerIgnoresOrder ==
  (Handled /\ conflictResolution = "timestamp") =>
    \A list \in Rearrangements(candidates) :
      resolveByTimestamp([type |-> "duplicate", items |-> list]).winner = winner

\* C40: handleConflict leaves the conflict record it is given unchanged under
\* every policy: after the call the candidate list has the same elements in
\* the same order as before it.
C40_RecordUnchanged ==
  Handled => (conflict.type = "duplicate" /\ conflict.items = candidates)

\* C32: every writeDB call that returns normally has written the current
\* in-memory snapshot to the store, also when only updatedAt fields were
\* modified or no previous snapshot was captured: when the call returns, the
\* store holds the snapshot.
C32_ReturnedMeansWritten ==
  [][\A w \in Writers : (Skips(w) \/ Recaptures(w)) => file' = data']_vars

\* C35: over any sequence of sync passes each entity is successfully posted
\* to each non-origin platform at most once, also when the snapshot write at
\* the end of a pass fails and the next pass reloads the snapshot: no two
\* successful posts of the passes are for the same entity and platform.
C35_PostedOnceAcrossPasses ==
  \A c, d \in Callers : \A i \in OkCalls(c) : \A j \in OkCalls(d) :
    (calls[c][i][1] = calls[d][j][1] /\ calls[c][i][2] = calls[d][j][2]) =>
      (c = d /\ i = j)

\* The platforms crossPostContent is to post to: the enabled ones other than
\* the excluded one.
OtherPlatforms ==
  {enabledPlatforms[i] : i \in 1..Len(enabledPlatforms)} \ {xpost.exclude}

Times(p, list) == Cardinality({i \in 1..Len(list) : list[i] = p})

\* C31: the entity crossPostContent returns has the excluded platform as its
\* originPlatform, the excluded platform received no post, every other
\* enabled platform was attempted once, and the syncStatus is synced iff
\* every other enabled platform has an entry, partial iff some but not all
\* have one, failed iff none succeeded and at least one post was attempted.
C31_CrossPostPropagates ==
  (xpost.pc = "returned" /\ xpost.exclude # "none") =>
    /\ xpost.originPlatform = xpost.exclude
    /\ Times(xpost.exclude, xpost.attempts) = 0
    /\ \A p \in OtherPlatforms : Times(p, xpost.attempts) = 1
    /\ xpost.syncStatus = "synced" <=> OtherPlatforms \subseteq DOMAIN xpost.platforms
    /\ xpost.syncStatus = "partial" <=>
         /\ OtherPlatforms \cap DOMAIN xpost.platforms # {}
         /\ ~(OtherPlatforms \subseteq DOMAIN xpost.platforms)
    /\ xpost.syncStatus = "failed" <=>
         /\ SuccessfulPlatforms(xpost.results) = 0
         /\ xpost.attempts # <<>>

\* C38: the result of crossPostContent is self-consistent: success is true
\* whenever the syncStatus is synced or partial, and the syncStatus is
\* failed exactly when success is false.
C38_ResultConsistent ==
  xpost.pc = "returned" =>
    /\ xpost.syncStatus \in {"synced", "partial"} => xpost.success
    /\ xpost.syncStatus = "failed" <=> ~xpost.success

\* C37: when a postMessage throws during the crossPostContent call of
\* addItem, every other enabled platform has still been attempted once, the
\* entries of the posts that succeeded are in the item addItem stores, and
\* no sync pass posts the entity to a platform where a post succeeded.
C37_ThrowKeepsPostedEntries ==
  (added.pc = "done" /\ xpost.pc = "threw") =>
    /\ \A p \in OtherPlatforms : Times(p, xpost.attempts) = 1
    /\ \A p \in DOMAIN xpost.results :
         xpost.results[p] = "ok" => p \in DOMAIN added.item.platforms
    /\ \A c \in Callers : \A i \in DOMAIN calls[c] :
         calls[c][i][1] = AddedGuid =>
           ~(calls[c][i][2] \in DOMAIN xpost.results
               /\ xpost.results[calls[c][i][2]] = "ok")

Holds(d, g, p) ==
  \E it \in AllItems(d) : it.guid = g /\ p \in DOMAIN it.platforms

PassPersists(c) == pc[c] = "walk" /\ pc'[c] = "idle" /\ outcome'[c] = "completed"

\* C34: under every interleaving of a sync pass with addItem (which reads
\* the store again through getUserData and writes it), the snapshot the
\* pass persists holds the platform entry of every post that succeeded in
\* the pass, and the entity addItem has written is in the store from then on.
C34_NothingLost ==
  /\ [][\A c \in Callers :
          PassPersists(c) =>
            \A i \in OkCalls(c) : Holds(file', calls[c][i][1], calls[c][i][2])]_vars
  /\ [](added.pc = "done" => \E it \in AllItems(file) : it.guid = AddedGuid)

TimerPassStarts == pc["timer"] = "idle" /\ pc'["timer"] = "readDB"

\* C36: after stop() has returned (no timer handle is held), no pass
\* triggered by a timer starts, whatever calls of start() and stop() came
\* before, start() called twice before stop() included.
C36_NoTimerPassAfterStop ==
  [][~syncInterval => ~TimerPassStarts]_vars

\* C33: under overlapping calls of writeDB, each change to the snapshot is
\* reported in at most one audit transaction: no two calls whose
\* transaction has been appended to the log channel report the same change.
C33_ChangeReportedOnce ==
  \A w, v \in OverlappingWriters :
    (w # v /\ wtx[w].sent = 1 /\ wtx[v].sent = 1) =>
      \A i \in DOMAIN wchanges[w] : \A j \in DOMAIN wchanges[v] :
        wchanges[w][i] # wchanges[v][j]

====
